---------------------------- MODULE Spec2Model ----------------------------
(***************************************************************************)
(* Library statistics collection and extrapolation engine of Tracearr      *)
(* (apps/server/src/services/libraryStats.ts).                              *)
(*                                                                         *)
(* Representation.  The `items` array of a fetch is kept as a sequence of  *)
(* runs [item, n, pos]: n consecutive identical raw items (item is an      *)
(* index into PlexItems / JellyfinItems) that the backend returned for the *)
(* library positions pos .. pos+n-1.  One run stands for n iterations of   *)
(* the `for (const item of items)` loop.  Numbers are exact integers;      *)
(* Math.round(p / q) is computed on the exact quotient.                    *)
(***************************************************************************)
EXTENDS Integers, Sequences, FiniteSets, TLC

(***************************************************************************)
(* LIBRARY_STATS_CONFIG                                                    *)
(***************************************************************************)
MAX_ITEMS_TO_PROCESS == 50000
SAMPLING_THRESHOLD == 3000
SAMPLE_SIZE == 1500
PAGE_SIZE == 2000

(***************************************************************************)
(* Bounds of the model.                                                    *)
(***************************************************************************)
\* exhaustive libraries of 0 .. MaxSmallCount items are enumerated one by one
MaxSmallCount == 2
\* sampled libraries have SAMPLING_THRESHOLD + 1 .. + MaxOverThreshold items,
\* and k * SAMPLE_SIZE - 1 .. k * SAMPLE_SIZE + 1 items for k up to MaxStride
MaxOverThreshold == 2
MaxStride == 4
\* how many times during one library fetch the backend may answer a page
\* request with more or fewer items than asked for
MaxShortPages == 1
\* the clock value after which no new updateServerLibraryStats run is started
MaxTime == 3
\* calendar days explored after the first one
MaxDay == 1
\* the snapshots a request finds were taken on the days 1 .. MaxHistoryDay, the
\* request is made on the last of them, and at most MaxSnapshots snapshots exist
MaxHistoryDay == 3
MaxSnapshots == 3
\* a request asks for 1 .. MaxDaysOfHistory days of history
MaxDaysOfHistory == 2
\* the jobs that are added to the queue before the last request comes in
MaxJobsAdded == 2

\* `undefined` in LibraryItemStats, NULL in the nullable integer columns
Null == -1

Min(a, b) == IF a < b THEN a ELSE b

\* Math.round(p / q) for p >= 0, q > 0
Round(p, q) == (2 * p + q) \div (2 * q)

(***************************************************************************)
(* Raw items.  Absent optional fields are 0 / "" (both falsy in the code). *)
(***************************************************************************)
\* Plex Media[0].Part[0].Stream arrays
VideoH264 == [streamType |-> 1, colorPrimaries |-> "bt709", DOVIProfile |-> Null, codec |-> "h264"]
VideoBt2020 == [streamType |-> 1, colorPrimaries |-> "bt2020", DOVIProfile |-> Null, codec |-> "h264"]
VideoDovi == [streamType |-> 1, colorPrimaries |-> "", DOVIProfile |-> 5, codec |-> "h264"]
VideoHevc == [streamType |-> 1, colorPrimaries |-> "bt709", DOVIProfile |-> Null, codec |-> "HEVC"]
AudioHevc == [streamType |-> 2, colorPrimaries |-> "bt2020", DOVIProfile |-> Null, codec |-> "hevc"]

PlexItem(media, size, duration, bitrate, stream, show, season) ==
    [Media |-> media, size |-> size, duration |-> duration, bitrate |-> bitrate,
     Stream |-> stream, grandparentRatingKey |-> show, parentRatingKey |-> season]

PlexItems ==
    << PlexItem(TRUE, 2, 3, 4, <<VideoH264>>, "show1", "season1"),
       PlexItem(TRUE, 1, 1, 0, <<AudioHevc, VideoBt2020>>, "show1", "season2"),
       PlexItem(FALSE, 0, 4, 0, <<>>, "show2", "season3"),
       PlexItem(TRUE, 3, 0, 7, <<VideoHevc>>, "", ""),
       PlexItem(TRUE, 0, 2, 1, <<VideoDovi>>, "show3", "season4"),
       PlexItem(TRUE, 4, 5, 0, <<AudioHevc>>, "show2", "season5") >>

JellyfinItem(sources, size, ticks, bitrate, streams, series, season) ==
    [MediaSources |-> sources, Size |-> size, RunTimeTicks |-> ticks, Bitrate |-> bitrate,
     MediaStreams |-> streams, SeriesId |-> series, SeasonId |-> season]

JfStream(type, range, rangeType) ==
    [Type |-> type, VideoRange |-> range, VideoRangeType |-> rangeType]

JellyfinItems ==
    << JellyfinItem(TRUE, 2, 30000, 4000, <<JfStream("Video", "SDR", "SDR")>>, "show1", "season1"),
       JellyfinItem(TRUE, 1, 15000, 0, <<JfStream("Audio", "HDR", ""), JfStream("Video", "HDR", "HDR10")>>, "show1", "season2"),
       JellyfinItem(FALSE, 0, 40000, 0, <<>>, "show2", "season3"),
       JellyfinItem(TRUE, 3, 0, 7500, <<JfStream("Video", "SDR", "DolbyVision")>>, "", ""),
       JellyfinItem(TRUE, 0, 24999, 1499, <<JfStream("Video", "SDR", "HDR10Plus")>>, "show3", "season4"),
       JellyfinItem(TRUE, 4, 5000, 0, <<JfStream("Audio", "HDR", "HDR10"), JfStream("Video", "SDR", "SDR")>>, "show2", "season5") >>


(***************************************************************************)
(* Sampling planner, as written in each of the two fetchers.               *)
(***************************************************************************)
PlexShouldSample(totalCount) == totalCount > SAMPLING_THRESHOLD

\* mutant: the loop asks for a page before it looks at the count
MaxItemsOnePage(totalCount) ==
    IF totalCount = 0 THEN 1
    ELSE Min(totalCount, IF totalCount > SAMPLING_THRESHOLD THEN SAMPLE_SIZE ELSE MAX_ITEMS_TO_PROCESS)

PlexMaxItems(totalCount) ==
    Min(totalCount, IF PlexShouldSample(totalCount) THEN SAMPLE_SIZE ELSE MAX_ITEMS_TO_PROCESS)

\* mutant: the stride is rounded up
SamplingIntervalCeil(totalCount) ==
    IF totalCount > SAMPLING_THRESHOLD
    THEN (totalCount + SAMPLE_SIZE - 1) \div SAMPLE_SIZE ELSE 1

PlexSamplingInterval(totalCount) ==
    IF PlexShouldSample(totalCount) THEN totalCount \div SAMPLE_SIZE ELSE 1

\* mutant: a library of exactly SAMPLING_THRESHOLD items is sampled
ShouldSampleAtThreshold(totalCount) == totalCount >= SAMPLING_THRESHOLD

JellyfinShouldSample(totalCount) == totalCount > SAMPLING_THRESHOLD

JellyfinMaxItems(totalCount) ==
    Min(totalCount, IF JellyfinShouldSample(totalCount) THEN SAMPLE_SIZE ELSE MAX_ITEMS_TO_PROCESS)

JellyfinSamplingInterval(totalCount) ==
    IF JellyfinShouldSample(totalCount) THEN totalCount \div SAMPLE_SIZE ELSE 1

ShouldSample(type, totalCount) ==
    IF type = "plex" THEN PlexShouldSample(totalCount) ELSE JellyfinShouldSample(totalCount)

MaxItems(type, totalCount) ==
    IF type = "plex" THEN PlexMaxItems(totalCount) ELSE JellyfinMaxItems(totalCount)

SamplingInterval(type, totalCount) ==
    IF type = "plex" THEN PlexSamplingInterval(totalCount) ELSE JellyfinSamplingInterval(totalCount)

\* mutant: the offset is the number of the page, not of its first item
OffsetOfPage(type, totalCount, fetched) == (fetched + PAGE_SIZE - 1) \div PAGE_SIZE

\* offset and batchSize of the next page request
Offset(type, totalCount, fetched) ==
    IF ShouldSample(type, totalCount) THEN fetched * SamplingInterval(type, totalCount) ELSE fetched

BatchSize(type, totalCount, fetched) == Min(PAGE_SIZE, MaxItems(type, totalCount) - fetched)

(***************************************************************************)
(* Item aggregator.                                                        *)
(***************************************************************************)
RECURSIVE ItemsLength(_)
ItemsLength(items) ==
    IF items = <<>> THEN 0 ELSE Head(items).n + ItemsLength(Tail(items))

EmptyAcc ==
    [totalSizeBytes |-> 0, totalDurationMs |-> 0, hdrItemCount |-> 0, totalBitrate |-> 0,
     itemsWithBitrate |-> 0, totalEpisodes |-> 0, uniqueShows |-> {}, uniqueSeasons |-> {}]

IncludesHevc(codec) == codec \in {"hevc", "HEVC", "Hevc"}

PlexIsHdr(item) ==
    \E i \in 1..Len(item.Stream) :
        LET stream == item.Stream[i] IN
        /\ stream.streamType = 1
        /\ \/ stream.colorPrimaries = "bt2020"
           \/ stream.DOVIProfile # Null
           \/ IncludesHevc(stream.codec)

\* the body of the for loop of calculatePlexLibraryStats, run.n times on run.item
PlexFoldItem(acc, run, libraryType) ==
    LET item == PlexItems[run.item]
        isShow == libraryType = "show"
    IN  [totalEpisodes |-> IF isShow THEN acc.totalEpisodes + run.n ELSE acc.totalEpisodes,
         uniqueShows |-> IF isShow /\ item.grandparentRatingKey # ""
                            THEN acc.uniqueShows \cup {item.grandparentRatingKey}
                            ELSE acc.uniqueShows,
         uniqueSeasons |-> IF isShow /\ item.parentRatingKey # ""
                              THEN acc.uniqueSeasons \cup {item.parentRatingKey}
                              ELSE acc.uniqueSeasons,
         totalSizeBytes |-> IF item.Media /\ item.size # 0
                               THEN acc.totalSizeBytes + run.n * item.size
                               ELSE acc.totalSizeBytes,
         totalDurationMs |-> IF item.Media /\ item.duration # 0
                                THEN acc.totalDurationMs + run.n * item.duration
                                ELSE acc.totalDurationMs,
         totalBitrate |-> IF item.Media /\ item.bitrate # 0
                             THEN acc.totalBitrate + run.n * item.bitrate
                             ELSE acc.totalBitrate,
         itemsWithBitrate |-> IF item.Media /\ item.bitrate # 0
                                 THEN acc.itemsWithBitrate + run.n
                                 ELSE acc.itemsWithBitrate,
         hdrItemCount |-> IF item.Media /\ PlexIsHdr(item)
                             THEN acc.hdrItemCount + run.n
                             ELSE acc.hdrItemCount]

RECURSIVE PlexFold(_, _, _)
PlexFold(items, libraryType, acc) ==
    IF items = <<>> THEN acc
    ELSE PlexFold(Tail(items), libraryType, PlexFoldItem(acc, Head(items), libraryType))

\* MediaStreams.find((s) => s.Type === 'Video'): index of the first video stream, 0 if none
FirstVideo(streams) ==
    IF \E i \in 1..Len(streams) : streams[i].Type = "Video"
    THEN CHOOSE i \in 1..Len(streams) :
             /\ streams[i].Type = "Video"
             /\ \A j \in 1..(i - 1) : streams[j].Type # "Video"
    ELSE 0

JellyfinIsHdr(item) ==
    LET v == FirstVideo(item.MediaStreams) IN
    /\ v # 0
    /\ \/ item.MediaStreams[v].VideoRange = "HDR"
       \/ item.MediaStreams[v].VideoRangeType = "HDR10"
       \/ item.MediaStreams[v].VideoRangeType = "HDR10Plus"
       \/ item.MediaStreams[v].VideoRangeType = "DolbyVision"

\* the body of the for loop of calculateJellyfinLibraryStats, run.n times on run.item
JellyfinFoldItem(acc, run, libraryType) ==
    LET item == JellyfinItems[run.item]
        isShow == libraryType = "tvshows"
    IN  [totalEpisodes |-> IF isShow THEN acc.totalEpisodes + run.n ELSE acc.totalEpisodes,
         uniqueShows |-> IF isShow /\ item.SeriesId # ""
                            THEN acc.uniqueShows \cup {item.SeriesId}
                            ELSE acc.uniqueShows,
         uniqueSeasons |-> IF isShow /\ item.SeasonId # ""
                              THEN acc.uniqueSeasons \cup {item.SeasonId}
                              ELSE acc.uniqueSeasons,
         totalSizeBytes |-> IF item.MediaSources /\ item.Size # 0
                               THEN acc.totalSizeBytes + run.n * item.Size
                               ELSE acc.totalSizeBytes,
         totalDurationMs |-> IF item.MediaSources /\ item.RunTimeTicks # 0
                                THEN acc.totalDurationMs + run.n * Round(item.RunTimeTicks, 10000)
                                ELSE acc.totalDurationMs,
         totalBitrate |-> IF item.MediaSources /\ item.Bitrate # 0
                             THEN acc.totalBitrate + run.n * Round(item.Bitrate, 1000)
                             ELSE acc.totalBitrate,
         itemsWithBitrate |-> IF item.MediaSources /\ item.Bitrate # 0
                                 THEN acc.itemsWithBitrate + run.n
                                 ELSE acc.itemsWithBitrate,
         hdrItemCount |-> IF item.MediaSources /\ JellyfinIsHdr(item)
                             THEN acc.hdrItemCount + run.n
                             ELSE acc.hdrItemCount]

RECURSIVE JellyfinFold(_, _, _)
JellyfinFold(items, libraryType, acc) ==
    IF items = <<>> THEN acc
    ELSE JellyfinFold(Tail(items), libraryType, JellyfinFoldItem(acc, Head(items), libraryType))

(***************************************************************************)
(* Extrapolator and the returned LibraryItemStats.                         *)
(***************************************************************************)
\* `sampled && items.length > 0`
PlexExtrapolates(sampled, length) == sampled /\ length > 0

\* mutant: the ratio divides by the planned sample size
ScaledBySampleSize(value, actualTotalCount, length) ==
    Round(value * actualTotalCount, SAMPLE_SIZE)

\* mutant: no extrapolation
Unscaled(value, actualTotalCount, length) == value

\* Math.round(value * samplingRatio), samplingRatio = actualTotalCount / items.length
PlexScaled(value, actualTotalCount, length) == Round(value * actualTotalCount, length)

\* mutant: the item count of a show library is its episode count
FinalTotalItemsEpisodes(isShow, extrapolatedShows, actualTotalCount) == actualTotalCount

\* finalTotalItems
PlexFinalTotalItems(isShow, extrapolatedShows, actualTotalCount) ==
    IF isShow THEN extrapolatedShows ELSE actualTotalCount

\* mutant: no guard, 0 / 0 is NaN (written Null)
AverageUnguarded(total, divisor) == IF divisor > 0 THEN Round(total, divisor) ELSE Null

\* mutant: Math.floor instead of Math.round
AverageFloor(total, divisor) == IF divisor > 0 THEN total \div divisor ELSE 0

\* avgFileSizeBytes, avgDurationMs, avgBitrateKbps: divisor > 0 ? Math.round(total / divisor) : 0
PlexAverage(total, divisor) == IF divisor > 0 THEN Round(total, divisor) ELSE 0

\* calculatePlexLibraryStats after its for loop
PlexExtrapolate(acc, length, isShow, actualTotalCount, sampled) ==
    LET totalShows == IF isShow THEN Cardinality(acc.uniqueShows) ELSE 0
        totalSeasons == IF isShow THEN Cardinality(acc.uniqueSeasons) ELSE 0
        scale == PlexExtrapolates(sampled, length)
        extrapolatedTotalSize ==
            IF scale THEN PlexScaled(acc.totalSizeBytes, actualTotalCount, length)
            ELSE acc.totalSizeBytes
        extrapolatedTotalDuration ==
            IF scale THEN PlexScaled(acc.totalDurationMs, actualTotalCount, length)
            ELSE acc.totalDurationMs
        extrapolatedHdrCount ==
            IF scale THEN PlexScaled(acc.hdrItemCount, actualTotalCount, length)
            ELSE acc.hdrItemCount
        extrapolatedEpisodes ==
            IF scale /\ isShow THEN actualTotalCount ELSE acc.totalEpisodes
        extrapolatedShows ==
            IF scale /\ isShow THEN PlexScaled(totalShows, actualTotalCount, length)
            ELSE totalShows
        extrapolatedSeasons ==
            IF scale /\ isShow THEN PlexScaled(totalSeasons, actualTotalCount, length)
            ELSE totalSeasons
        finalTotalItems == PlexFinalTotalItems(isShow, extrapolatedShows, actualTotalCount)
    IN  [totalItems |-> finalTotalItems,
         totalEpisodes |-> IF isShow THEN extrapolatedEpisodes ELSE Null,
         totalSeasons |-> IF isShow THEN extrapolatedSeasons ELSE Null,
         totalShows |-> IF isShow THEN extrapolatedShows ELSE Null,
         totalSizeBytes |-> extrapolatedTotalSize,
         totalDurationMs |-> extrapolatedTotalDuration,
         avgFileSizeBytes |-> PlexAverage(extrapolatedTotalSize, finalTotalItems),
         avgDurationMs |-> PlexAverage(extrapolatedTotalDuration, finalTotalItems),
         avgBitrateKbps |-> PlexAverage(acc.totalBitrate, acc.itemsWithBitrate),
         hdrItemCount |-> extrapolatedHdrCount]

\* `sampled && items.length > 0`
JellyfinExtrapolates(sampled, length) == sampled /\ length > 0

\* Math.round(value * samplingRatio), samplingRatio = actualTotalCount / items.length
JellyfinScaled(value, actualTotalCount, length) == Round(value * actualTotalCount, length)

\* finalTotalItems
JellyfinFinalTotalItems(isShow, extrapolatedShows, actualTotalCount) ==
    IF isShow THEN extrapolatedShows ELSE actualTotalCount

\* avgFileSizeBytes, avgDurationMs, avgBitrateKbps: divisor > 0 ? Math.round(total / divisor) : 0
JellyfinAverage(total, divisor) == IF divisor > 0 THEN Round(total, divisor) ELSE 0

\* calculateJellyfinLibraryStats after its for loop
JellyfinExtrapolate(acc, length, isShow, actualTotalCount, sampled) ==
    LET totalShows == IF isShow THEN Cardinality(acc.uniqueShows) ELSE 0
        totalSeasons == IF isShow THEN Cardinality(acc.uniqueSeasons) ELSE 0
        scale == JellyfinExtrapolates(sampled, length)
        extrapolatedTotalSize ==
            IF scale THEN JellyfinScaled(acc.totalSizeBytes, actualTotalCount, length)
            ELSE acc.totalSizeBytes
        extrapolatedTotalDuration ==
            IF scale THEN JellyfinScaled(acc.totalDurationMs, actualTotalCount, length)
            ELSE acc.totalDurationMs
        extrapolatedHdrCount ==
            IF scale THEN JellyfinScaled(acc.hdrItemCount, actualTotalCount, length)
            ELSE acc.hdrItemCount
        extrapolatedEpisodes ==
            IF scale /\ isShow THEN actualTotalCount ELSE acc.totalEpisodes
        extrapolatedShows ==
            IF scale /\ isShow THEN JellyfinScaled(totalShows, actualTotalCount, length)
            ELSE totalShows
        extrapolatedSeasons ==
            IF scale /\ isShow THEN JellyfinScaled(totalSeasons, actualTotalCount, length)
            ELSE totalSeasons
        finalTotalItems == JellyfinFinalTotalItems(isShow, extrapolatedShows, actualTotalCount)
    IN  [totalItems |-> finalTotalItems,
         totalEpisodes |-> IF isShow THEN extrapolatedEpisodes ELSE Null,
         totalSeasons |-> IF isShow THEN extrapolatedSeasons ELSE Null,
         totalShows |-> IF isShow THEN extrapolatedShows ELSE Null,
         totalSizeBytes |-> extrapolatedTotalSize,
         totalDurationMs |-> extrapolatedTotalDuration,
         avgFileSizeBytes |-> JellyfinAverage(extrapolatedTotalSize, finalTotalItems),
         avgDurationMs |-> JellyfinAverage(extrapolatedTotalDuration, finalTotalItems),
         avgBitrateKbps |-> JellyfinAverage(acc.totalBitrate, acc.itemsWithBitrate),
         hdrItemCount |-> extrapolatedHdrCount]

calculatePlexLibraryStats(items, libraryType, actualTotalCount, sampled) ==
    PlexExtrapolate(PlexFold(items, libraryType, EmptyAcc), ItemsLength(items),
                    libraryType = "show", actualTotalCount, sampled)

calculateJellyfinLibraryStats(items, libraryType, actualTotalCount, sampled) ==
    JellyfinExtrapolate(JellyfinFold(items, libraryType, EmptyAcc), ItemsLength(items),
                        libraryType = "tvshows", actualTotalCount, sampled)


(***************************************************************************)
(* The servers table and what the media servers report.                    *)
(***************************************************************************)
ServerType == [s1 |-> "plex", s2 |-> "jellyfin"]
Servers == DOMAIN ServerType
UnknownServer == "s0"

Lib(id, type) == [id |-> id, type |-> type]
NoLibrary == Lib("", "")

\* client.getLibraries() of a server with several libraries
Libraries(s) ==
    IF s = "s1"
    THEN << Lib("1", "movie"), Lib("2", "collection"), Lib("3", "show") >>
    ELSE << Lib("1", "tvshows"), Lib("2", "boxsets"), Lib("3", "collections") >>

\* client.getLibraries() of servers that hold one library
SingleLibrary(s) ==
    IF s = "s1"
    THEN { << Lib("1", "movie") >>, << Lib("1", "show") >> }
    ELSE { << Lib("1", "movies") >>, << Lib("1", "tvshows") >> }

\* totalSize / TotalRecordCount values the count probe may report
SmallCounts == 0..MaxSmallCount
ThresholdCounts == (SAMPLING_THRESHOLD - 1)..(SAMPLING_THRESHOLD + MaxOverThreshold)
StrideCounts ==
    { k * SAMPLE_SIZE + d : k \in 3..MaxStride, d \in {-1, 0, 1} } \cup {10000}
AllCounts == SmallCounts \cup ThresholdCounts \cup StrideCounts
FewCounts == {1, SAMPLING_THRESHOLD + 1}

AllItems == 1..Len(PlexItems)
FewItems == {2}

(***************************************************************************)
(* State.                                                                  *)
(***************************************************************************)
VARIABLES
    libraryStatistics,    \* the library_statistics table: a set of rows
    librarySnapshots,     \* the library_snapshots table: a set of rows
    now,                  \* the clock read by new Date() for lastUpdatedAt
    today,                \* the calendar day (local midnight of new Date())
    pc,                   \* where the running updateServerLibraryStats is
    server,               \* its serverId
    library,              \* the library of the current iteration of its for loop
    filteredLibraries,    \* the libraries of the iterations still to come
    processedLibraryIds,  \* its processedLibraryIds
    totalCount,           \* totalCount of the current library
    itemsFetched,         \* itemsFetched of the current fetch loop
    items,                \* items of the current fetch loop
    requests,             \* the page requests sent for the current library
    stats,                \* the LibraryItemStats last returned by calculate*
    computed,             \* history of the successful upserts, per library
    libraries,            \* what client.getLibraries() returned to the running update
    probed,               \* history: the count probes of the running update, in order
    skipped,              \* history: the libraries whose processing threw in the running update
    allServers,           \* updateAllLibraryStats: the servers its for loop has still to handle
    calls,                \* history: the calls the last updateAllLibraryStats made, in order
    response,             \* the last call of getLibraryStatistics: its arguments and its result
    jobs,                 \* the library-stats jobs that run next to each other
    libraryStatsQueue,    \* the jobs of the queue 'library-stats-update'
    enqueues              \* the requests of POST /libraries/refresh in flight

vars ==
    << libraryStatistics, librarySnapshots, now, today, pc, server, library, filteredLibraries,
       processedLibraryIds, totalCount, itemsFetched, items, requests, stats, computed,
       libraries, probed, skipped, allServers, calls, response, jobs,
       libraryStatsQueue, enqueues >>

dbVars == << libraryStatistics, librarySnapshots, computed >>
fetchVars == << totalCount, itemsFetched, items, requests >>
runVars == << server, library, filteredLibraries, processedLibraryIds >>
traceVars == << libraries, probed, skipped >>
allVars == << allServers, calls >>
queueVars == << libraryStatsQueue, enqueues >>
otherVars == << response, jobs, queueVars >>

ZeroStats ==
    [totalItems |-> 0, totalEpisodes |-> Null, totalSeasons |-> Null, totalShows |-> Null,
     totalSizeBytes |-> 0, totalDurationMs |-> 0, avgFileSizeBytes |-> 0,
     avgDurationMs |-> 0, avgBitrateKbps |-> 0, hdrItemCount |-> 0]

\* a job that was not started
NoJob ==
    [pc |-> "new", serverId |-> UnknownServer, filteredLibraries |-> <<>>,
     processedLibraryIds |-> <<>>, upserted |-> <<>>, currentStats |-> {},
     inserts |-> <<>>]

Jobs == {1, 2}

\* the requests of POST /libraries/refresh that may be in flight together
Callers == {1, 2}

\* a request that has not come in
NoEnqueue ==
    [pc |-> "idle", serverId |-> "", existingJob |-> <<>>, state |-> "", result |-> ""]

\* everything but the two tables, the clock and the day
InitLocals ==
    /\ pc = "idle"
    /\ server = UnknownServer
    /\ library = NoLibrary
    /\ filteredLibraries = <<>>
    /\ processedLibraryIds = <<>>
    /\ totalCount = 0
    /\ itemsFetched = 0
    /\ items = <<>>
    /\ requests = <<>>
    /\ stats = ZeroStats
    /\ libraries = <<>>
    /\ probed = <<>>
    /\ skipped = <<>>
    /\ allServers = <<>>
    /\ calls = <<>>
    /\ response = <<>>
    /\ jobs = [j \in Jobs |-> NoJob]
    /\ libraryStatsQueue = [jobs |-> {}, added |-> 0]
    /\ enqueues = [c \in Callers |-> NoEnqueue]

Init ==
    /\ libraryStatistics = {}
    /\ librarySnapshots = {}
    /\ now = 0
    /\ today = 0
    /\ computed = {}
    /\ InitLocals

serverType == ServerType[server]

(***************************************************************************)
(* updateServerLibraryStats                                                *)
(***************************************************************************)
\* mutant: only Jellyfin and Emby collections are filtered out
SupportedButOnPlex(type, lib) ==
    ~ (type \in {"jellyfin", "emby"} /\ lib.type \in {"boxsets", "collections"})

\* the filter of lines 683-700
Supported(type, lib) ==
    /\ ~ (type \in {"jellyfin", "emby"} /\ lib.type \in {"boxsets", "collections"})
    /\ ~ (type = "plex" /\ lib.type = "collection")

RECURSIVE Filter(_, _)
Filter(type, libs) ==
    IF libs = <<>> THEN <<>>
    ELSE IF Supported(type, Head(libs))
         THEN << Head(libs) >> \o Filter(type, Tail(libs))
         ELSE Filter(type, Tail(libs))

\* the for loop of line 709 moves on to the next library, or ends
BeginLibrary(remaining) ==
    IF remaining = <<>>
    THEN /\ pc' = "finish"
         /\ UNCHANGED << library, filteredLibraries >>
    ELSE /\ pc' = "probe"
         /\ library' = Head(remaining)
         /\ filteredLibraries' = Tail(remaining)

\* the caller is at the call updateServerLibraryStats(s): a job or a route
\* (pc = "idle"), or the for loop of updateAllLibraryStats at line 846
Calling(op, s) ==
    IF allServers = <<>> THEN pc = "idle"
    ELSE pc = op /\ s = Head(allServers)

\* a call made by the updateAllLibraryStats that is under way is recorded when it
\* ends, with the servers that come after it and the locals of the update
Logged(op, s, result) ==
    IF allServers = <<>> THEN calls
    ELSE Append(calls, [op |-> op, server |-> s, result |-> result,
                        rest |-> Tail(allServers), libraries |-> libraries,
                        probed |-> probed, processed |-> processedLibraryIds,
                        skipped |-> skipped])

\* updateServerLibraryStats returns to its caller: to the job (pc = "idle") or
\* to line 847 of updateAllLibraryStats
Return(s, result) ==
    /\ pc' = IF allServers = <<>> THEN "idle" ELSE "snapshot"
    /\ calls' = Logged("update", s, result)
    /\ UNCHANGED allServers

\* the for loop of updateAllLibraryStats moves on to the next server, or ends
NextServer ==
    IF allServers = <<>>
    THEN /\ pc' = "idle"
         /\ UNCHANGED allServers
    ELSE /\ pc' = IF Tail(allServers) = <<>> THEN "idle" ELSE "update"
         /\ allServers' = Tail(allServers)

\* mutant: the exception leaves updateAllLibraryStats as well
ThrowAborts(op, s) ==
    /\ calls' = Logged(op, s, "threw")
    /\ pc' = "idle"
    /\ allServers' = <<>>

\* an exception leaves updateServerLibraryStats or createDailySnapshot: the job
\* fails, or the catch of lines 848-850 logs it
Throw(op, s) ==
    /\ calls' = Logged(op, s, "threw")
    /\ NextServer

\* the locals of the update go away
EndRun ==
    /\ server' = UnknownServer
    /\ library' = NoLibrary
    /\ filteredLibraries' = <<>>
    /\ processedLibraryIds' = <<>>
    /\ totalCount' = 0
    /\ itemsFetched' = 0
    /\ items' = <<>>
    /\ requests' = <<>>
    /\ stats' = ZeroStats
    /\ libraries' = <<>>
    /\ probed' = <<>>
    /\ skipped' = <<>>

\* lines 650-706: server lookup, client, getLibraries, filter
UpdateServer(s, lists) ==
    /\ Calling("update", s)
    /\ allServers # <<>> \/ now < MaxTime
    /\ \/ /\ s \notin Servers                 \* server not found: return
          /\ Return(s, "not found")
          /\ UNCHANGED << runVars, traceVars >>
       \/ /\ s \in Servers                    \* getLibraries throws: return
          /\ Return(s, "no libraries")
          /\ UNCHANGED << runVars, traceVars >>
       \/ /\ Throw("update", s)               \* findFirst or the client factory throws
          /\ UNCHANGED << runVars, traceVars >>
       \/ /\ s \in Servers
          /\ \E libs \in lists :
                /\ server' = s
                /\ libraries' = libs
                /\ processedLibraryIds' = <<>>
                /\ BeginLibrary(Filter(ServerType[s], libs))
          /\ UNCHANGED << probed, skipped, allVars >>
    /\ UNCHANGED << dbVars, now, today, fetchVars, stats, otherVars >>

\* getPlexLibraryCount / getJellyfinLibraryCount answer, then lines 176-195
StartFetch(count, ok) ==
    /\ totalCount' = count
    /\ itemsFetched' = 0
    /\ items' = <<>>
    /\ requests' = <<>>
    /\ stats' = ZeroStats
    /\ probed' = Append(probed, [library |-> library, ok |-> ok])
    /\ pc' = IF 0 < MaxItems(serverType, count) THEN "fetch" ELSE "calc"
    /\ UNCHANGED << dbVars, now, today, runVars, libraries, skipped, allVars, otherVars >>

CountProbe(counts) ==
    /\ pc = "probe"
    /\ \E count \in counts : StartFetch(count, TRUE)

\* the count request throws: caught, the count is 0
CountProbeFails ==
    /\ pc = "probe"
    /\ StartFetch(0, FALSE)

Request(ok, length) ==
    [offset |-> Offset(serverType, totalCount, itemsFetched),
     batchSize |-> BatchSize(serverType, totalCount, itemsFetched),
     ok |-> ok, length |-> length]

\* a non-empty page of another length than the batchSize asked for
IsShort(r) == r.ok /\ 0 < r.length /\ r.length # r.batchSize

ShortPages == Cardinality({ i \in 1..Len(requests) : IsShort(requests[i]) })

\* the lengths of the non-empty pages the backend may answer with: the batchSize
\* asked for and, up to shortLimit times, 1, batchSize - 1 or batchSize + 1
PageLengths(batchSize, shortLimit) ==
    {batchSize}
    \cup (IF ShortPages < shortLimit THEN {1, batchSize - 1, batchSize + 1} \ {0} ELSE {})

\* one iteration of the while loop whose request returns a non-empty page
FetchPage(kinds, shortLimit) ==
    /\ pc = "fetch"
    /\ \E item \in kinds, length \in PageLengths(BatchSize(serverType, totalCount, itemsFetched), shortLimit) :
          /\ items' = Append(items, [item |-> item, n |-> length,
                                     pos |-> Offset(serverType, totalCount, itemsFetched)])
          /\ itemsFetched' = itemsFetched + length
          /\ requests' = Append(requests, Request(TRUE, length))
          /\ pc' = IF itemsFetched' < MaxItems(serverType, totalCount) THEN "fetch" ELSE "calc"
    /\ UNCHANGED << dbVars, now, today, runVars, totalCount, stats, traceVars, allVars, otherVars >>

\* mutant: the loop does not break on a page without items
FetchEmptyPageGoesOn ==
    /\ pc = "fetch"
    /\ requests' = Append(requests, Request(TRUE, 0))
    /\ pc' = "fetch"
    /\ UNCHANGED << dbVars, now, today, runVars, totalCount, itemsFetched, items, stats,
                    traceVars, allVars, otherVars >>

\* one iteration whose request returns no items: break
FetchEmptyPage ==
    /\ pc = "fetch"
    /\ requests' = Append(requests, Request(TRUE, 0))
    /\ pc' = "calc"
    /\ UNCHANGED << dbVars, now, today, runVars, totalCount, itemsFetched, items, stats,
                    traceVars, allVars, otherVars >>

\* mutant: the loop goes on after a request that threw and asks again
FetchPageFailsRetries ==
    /\ pc = "fetch"
    /\ requests' = Append(requests, Request(FALSE, 0))
    /\ pc' = "fetch"
    /\ UNCHANGED << dbVars, now, today, runVars, totalCount, itemsFetched, items, stats,
                    traceVars, allVars, otherVars >>

\* one iteration whose request throws: caught, break
FetchPageFails ==
    /\ pc = "fetch"
    /\ requests' = Append(requests, Request(FALSE, 0))
    /\ pc' = "calc"
    /\ UNCHANGED << dbVars, now, today, runVars, totalCount, itemsFetched, items, stats,
                    traceVars, allVars, otherVars >>

\* lines 715-733
CalculateStats ==
    IF serverType = "plex"
    THEN calculatePlexLibraryStats(items, library.type, totalCount,
                                   PlexShouldSample(totalCount))
    ELSE calculateJellyfinLibraryStats(items, library.type, totalCount,
                                       JellyfinShouldSample(totalCount))

SameLibrary(r, row) == r.serverId = row.serverId /\ r.libraryId = row.libraryId

\* mutant: the upsert does nothing on conflict
UpsertIgnoreConflict(table, row) ==
    IF \E r \in table : SameLibrary(r, row) THEN table ELSE table \cup {row}

\* insert ... onConflictDoUpdate on (serverId, libraryId), lines 736-771
Upsert(table, row) ==
    IF \E r \in table : SameLibrary(r, row)
    THEN { IF SameLibrary(r, row)
           THEN [r EXCEPT !.libraryType = row.libraryType, !.stats = row.stats]
           ELSE r : r \in table }
    ELSE table \cup {row}

\* the count probe and every page request of the current library were answered
Collected ==
    /\ probed # <<>>
    /\ probed[Len(probed)].ok
    /\ \A i \in 1..Len(requests) : requests[i].ok

\* history: per library the stats of its latest and of its previous successful
\* processing, and how many times it was processed successfully
Remember(history, s, id, st) ==
    LET old == { c \in history : c.serverId = s /\ c.libraryId = id }
    IN  (history \ old)
        \cup { [serverId |-> s, libraryId |-> id, stats |-> st,
                previous |-> IF old = {} THEN st ELSE (CHOOSE c \in old : TRUE).stats,
                upserts |-> IF old = {} THEN 1 ELSE (CHOOSE c \in old : TRUE).upserts + 1] }

\* lines 713-777: calculate, upsert, remember the library as processed
ProcessLibrary ==
    /\ pc = "calc"
    /\ stats' = CalculateStats
    /\ now' = now + 1
    /\ libraryStatistics' =
          Upsert(libraryStatistics,
                 [serverId |-> server, libraryId |-> library.id, libraryType |-> library.type,
                  stats |-> stats', lastUpdatedAt |-> now'])
    /\ computed' = Remember(computed, server, library.id, stats')
    /\ processedLibraryIds' = Append(processedLibraryIds, library.id)
    /\ BeginLibrary(filteredLibraries)
    /\ UNCHANGED << librarySnapshots, today, server, fetchVars, traceVars, allVars, otherVars >>

\* mutant: the exception of one library leaves updateServerLibraryStats
ProcessLibraryAborts ==
    /\ pc = "calc"
    /\ Throw("update", server)
    /\ EndRun
    /\ UNCHANGED << dbVars, now, today, otherVars >>

\* lines 778-780: the calculation or the upsert throws, the library is skipped
ProcessLibraryFails ==
    /\ pc = "calc"
    /\ stats' = CalculateStats
    /\ skipped' = Append(skipped,
                         [id |-> library.id,
                          rows |-> { r \in libraryStatistics :
                                       r.serverId = server /\ r.libraryId = library.id }])
    /\ BeginLibrary(filteredLibraries)
    /\ UNCHANGED << dbVars, now, today, server, processedLibraryIds, fetchVars,
                    libraries, probed, allVars, otherVars >>

\* mutant: the batched update marks every record of the server
FinishUpdateWholeServer ==
    /\ pc = "finish"
    /\ Return(server, "completed")
    /\ EndRun
    /\ IF processedLibraryIds # <<>>
       THEN /\ now' = now + 1
            /\ libraryStatistics' =
                  { IF r.serverId = server THEN [r EXCEPT !.lastUpdatedAt = now'] ELSE r
                    : r \in libraryStatistics }
       ELSE UNCHANGED << now, libraryStatistics >>
    /\ UNCHANGED << librarySnapshots, computed, today, otherVars >>

\* lines 783-797: the batched lastUpdatedAt update, then the return
FinishUpdate ==
    /\ pc = "finish"
    /\ Return(server, "completed")
    /\ EndRun
    /\ IF processedLibraryIds # <<>>
       THEN /\ now' = now + 1
            /\ libraryStatistics' =
                  { IF r.serverId = server
                       /\ \E i \in 1..Len(processedLibraryIds) : processedLibraryIds[i] = r.libraryId
                    THEN [r EXCEPT !.lastUpdatedAt = now']
                    ELSE r : r \in libraryStatistics }
       ELSE UNCHANGED << now, libraryStatistics >>
    /\ UNCHANGED << librarySnapshots, computed, today, otherVars >>

\* lines 783-795: the clock is read, the batched lastUpdatedAt update throws
FinishUpdateFails ==
    /\ pc = "finish"
    /\ processedLibraryIds # <<>>
    /\ now' = now + 1
    /\ Throw("update", server)
    /\ EndRun
    /\ UNCHANGED << dbVars, today, otherVars >>

(***************************************************************************)
(* createDailySnapshot                                                     *)
(***************************************************************************)
\* Dates are instants counted in hours; a local day has HoursPerDay of them
HoursPerDay == 24

\* new Date() with setHours(0, 0, 0, 0), lines 804-805: the instant of the local
\* midnight of `day` where local time is `offset` hours ahead of UTC
Midnight(day, offset) == day * HoursPerDay - offset

SameSnapshot(r, row) ==
    /\ r.serverId = row.serverId
    /\ r.libraryId = row.libraryId
    /\ r.snapshotDate = row.snapshotDate

\* mutant: the snapshot insert overwrites on conflict
InsertSnapshotOverwrite(table, row) ==
    { r \in table : ~ SameSnapshot(r, row) } \cup {row}

\* insert ... onConflictDoNothing on (serverId, libraryId, snapshotDate)
InsertSnapshot(table, row) ==
    IF \E r \in table : SameSnapshot(r, row) THEN table ELSE table \cup {row}

SnapshotOf(stat, date) ==
    [serverId |-> stat.serverId, libraryId |-> stat.libraryId,
     libraryType |-> stat.libraryType, snapshotDate |-> date,
     totalItems |-> stat.stats.totalItems,
     totalSizeBytes |-> stat.stats.totalSizeBytes,
     totalDurationMs |-> stat.stats.totalDurationMs]

\* mutant: records without items get no snapshot
RECURSIVE InsertSnapshotsOfItems(_, _, _)
InsertSnapshotsOfItems(table, currentStats, date) ==
    IF currentStats = {} THEN table
    ELSE LET stat == CHOOSE r \in currentStats : TRUE
             next == IF stat.stats.totalItems = 0 THEN table
                     ELSE InsertSnapshot(table, SnapshotOf(stat, date))
         IN  InsertSnapshotsOfItems(next, currentStats \ {stat}, date)

\* the for loop of lines 812-833 over the rows whose insert does not throw
RECURSIVE InsertSnapshots(_, _, _)
InsertSnapshots(table, currentStats, date) ==
    IF currentStats = {} THEN table
    ELSE LET stat == CHOOSE r \in currentStats : TRUE
         IN  InsertSnapshots(InsertSnapshot(table, SnapshotOf(stat, date)),
                             currentStats \ {stat}, date)

\* the engine's process runs in UTC
CreateDailySnapshot(s) ==
    /\ Calling("snapshot", s)
    /\ LET currentStats == { r \in libraryStatistics : r.serverId = s }
       IN  \E failing \in SUBSET currentStats :
              /\ librarySnapshots' =
                    InsertSnapshots(librarySnapshots, currentStats \ failing,
                                    Midnight(today, 0))
              /\ calls' = Logged("snapshot", s, IF failing = {} THEN "completed"
                                                ELSE "logged errors")
    /\ NextServer
    /\ UNCHANGED << libraryStatistics, computed, now, today, runVars, fetchVars, stats,
                    traceVars, otherVars >>

\* line 808: the findMany of createDailySnapshot throws
CreateDailySnapshotFails(s) ==
    /\ Calling("snapshot", s)
    /\ Throw("snapshot", s)
    /\ UNCHANGED << dbVars, now, today, runVars, fetchVars, stats, traceVars, otherVars >>

\* midnight passes
NextDay ==
    /\ today < MaxDay
    /\ today' = today + 1
    /\ UNCHANGED << dbVars, now, pc, runVars, fetchVars, stats, traceVars, allVars, otherVars >>

(***************************************************************************)
(* updateAllLibraryStats                                                   *)
(***************************************************************************)
\* db.query.servers.findMany(), line 842; "s0" is a server that is deleted
\* before the loop comes to it
AllServerLists == { << "s1", "s2" >>, << "s0", "s2" >> }

\* lines 839-844: the servers are read, the for loop begins
UpdateAllLibraryStats(lists) ==
    /\ pc = "idle"
    /\ allServers = <<>>
    /\ now < MaxTime
    /\ \E all \in lists :
          /\ allServers' = all
          /\ pc' = IF all = <<>> THEN "idle" ELSE "update"
    /\ calls' = <<>>
    /\ UNCHANGED << dbVars, now, today, runVars, fetchVars, stats, traceVars, otherVars >>

\* client.getLibraries() of a server one of whose libraries may be gone
SomeLibraries(s) ==
    IF s = "s1" THEN {Libraries(s), << Lib("1", "movie"), Lib("2", "collection") >>}
    ELSE {Libraries(s)}

\* line 846
UpdateNextServer ==
    /\ allServers # <<>>
    /\ UpdateServer(Head(allServers), SomeLibraries(Head(allServers)))

\* line 847
SnapshotNextServer ==
    /\ allServers # <<>>
    /\ CreateDailySnapshot(Head(allServers))

\* line 847, createDailySnapshot throws
SnapshotNextServerFails ==
    /\ allServers # <<>>
    /\ CreateDailySnapshotFails(Head(allServers))

(***************************************************************************)
(* getLibraryStatistics                                                    *)
(***************************************************************************)
\* p / q in floating point: kept as the exact fraction with denominator q
Divide(p, q) == << p, q >>

MsPerHour == 1000 * 60 * 60

\* null where the response has a string
NullString == <<>>

\* Date.prototype.toISOString(): the UTC date and the UTC time of day of an instant
toISOString(date) == << date \div HoursPerDay, date % HoursPerDay >>

\* toISOString().split('T')[0]; date strings are compared as the numbers of their days
DateString(date) == toISOString(date)[1]

\* what findMany returns for a set of rows: the rows in some order
RECURSIVE FindMany(_)
FindMany(rows) ==
    IF rows = {} THEN <<>>
    ELSE LET row == CHOOSE r \in rows : TRUE
         IN  << row >> \o FindMany(rows \ {row})

\* serverId ? eq(serverId) : undefined, lines 864 and 920-925
WhereServer(serverId, row) == serverId = "" \/ row.serverId = serverId

\* the for loop of lines 879-887 over currentStats[i..]
RECURSIVE Totals(_, _, _)
Totals(currentStats, i, acc) ==
    IF i > Len(currentStats) THEN acc
    ELSE LET stat == currentStats[i]
         IN  Totals(currentStats, i + 1,
                    [totalSize |-> acc.totalSize + stat.stats.totalSizeBytes,
                     totalItems |-> acc.totalItems + stat.stats.totalItems,
                     totalDurationMs |-> acc.totalDurationMs + stat.stats.totalDurationMs,
                     lastUpdated |-> IF acc.lastUpdated = Null
                                        \/ stat.lastUpdatedAt > acc.lastUpdated
                                     THEN stat.lastUpdatedAt
                                     ELSE acc.lastUpdated])

\* lines 890-891
HdrPercentage(stat) ==
    IF stat.stats.totalItems > 0
    THEN Divide(stat.stats.hdrItemCount * 100, stat.stats.totalItems)
    ELSE Divide(0, 1)

\* the callback of currentStats.map, lines 889-914
MediaLibraryStats(stat) ==
    [id |-> stat.libraryId,
     serverId |-> stat.serverId,
     type |-> stat.libraryType,
     size |-> stat.stats.totalSizeBytes,
     itemCount |-> stat.stats.totalItems,
     episodeCount |-> stat.stats.totalEpisodes,
     seasonCount |-> stat.stats.totalSeasons,
     showCount |-> stat.stats.totalShows,
     hours |-> Divide(stat.stats.totalDurationMs, MsPerHour),
     fileStats |-> [avgFileSize |-> stat.stats.avgFileSizeBytes,
                    avgDuration |-> stat.stats.avgDurationMs,
                    avgBitrate |-> stat.stats.avgBitrateKbps,
                    hdrPercentage |-> HdrPercentage(stat)],
     lastUpdatedAt |-> toISOString(stat.lastUpdatedAt)]

\* historyStartDate.setDate(getDate() - daysOfHistory), line 918: the same time
\* of day daysOfHistory days earlier
HistoryStartDate(date, daysOfHistory) == date - daysOfHistory * HoursPerDay

\* gte(librarySnapshots.snapshotDate, historyStartDate), lines 923 and 925
InHistory(start, row) == row.snapshotDate >= start

\* orderBy desc(snapshotDate), line 929
RECURSIVE Descending(_)
Descending(rows) ==
    IF rows = {} THEN <<>>
    ELSE LET row == CHOOSE r \in rows : \A q \in rows : q.snapshotDate <= r.snapshotDate
         IN  << row >> \o Descending(rows \ {row})

\* lines 937-944
MediaLibrarySnapshot(snapshot) ==
    [libraryId |-> snapshot.libraryId,
     libraryType |-> snapshot.libraryType,
     size |-> snapshot.totalSizeBytes,
     items |-> snapshot.totalItems,
     durationMs |-> snapshot.totalDurationMs]

\* snapshotsByDate.set(dateStr, existing) on the entries of the Map, which keeps
\* its keys in the order of their first insertion
MapSet(entries, date, libs) ==
    IF \E i \in 1..Len(entries) : entries[i].date = date
    THEN [i \in 1..Len(entries) |->
             IF entries[i].date = date THEN [date |-> date, libraries |-> libs]
             ELSE entries[i]]
    ELSE Append(entries, [date |-> date, libraries |-> libs])

\* snapshotsByDate.get(dateStr) ?? []
MapGet(entries, date) ==
    IF \E i \in 1..Len(entries) : entries[i].date = date
    THEN (CHOOSE e \in { entries[i] : i \in 1..Len(entries) } : e.date = date).libraries
    ELSE <<>>

\* the for loop of lines 934-946 over snapshots[i..]
RECURSIVE SnapshotsByDate(_, _, _)
SnapshotsByDate(snapshots, i, entries) ==
    IF i > Len(snapshots) THEN entries
    ELSE LET dateStr == DateString(snapshots[i].snapshotDate)
             existing == MapGet(entries, dateStr)
         IN  SnapshotsByDate(snapshots, i + 1,
                             MapSet(entries, dateStr,
                                    Append(existing, MediaLibrarySnapshot(snapshots[i]))))

\* mutant: the entries stay in the order of the query, newest first
Unsorted(entries) == entries

\* .sort((a, b) => a.date.localeCompare(b.date)), line 953
RECURSIVE SortByDate(_)
SortByDate(entries) ==
    IF entries = <<>> THEN <<>>
    ELSE LET first == CHOOSE i \in 1..Len(entries) :
                          /\ \A j \in 1..Len(entries) : entries[i].date <= entries[j].date
                          /\ \A j \in 1..(i - 1) : entries[j].date # entries[i].date
             rest == [j \in 1..(Len(entries) - 1) |->
                         IF j < first THEN entries[j] ELSE entries[j + 1]]
         IN  << entries[first] >> \o SortByDate(rest)

\* mutant: the freshness timestamp of an empty table is the epoch
LastUpdatedEpoch(lastUpdated) == toISOString(IF lastUpdated = Null THEN 0 ELSE lastUpdated)

\* lastUpdated?.toISOString() ?? null, line 960
LastUpdated(lastUpdated) ==
    IF lastUpdated = Null THEN NullString ELSE toISOString(lastUpdated)

\* mutant: only the first of the selected records is counted
CurrentStatsFirst(serverId) ==
    LET rows == FindMany({ r \in libraryStatistics : WhereServer(serverId, r) })
    IN  IF rows = <<>> THEN <<>> ELSE << rows[1] >>

\* lines 866-871
CurrentStats(serverId) ==
    FindMany({ r \in libraryStatistics : WhereServer(serverId, r) })

\* getLibraryStatistics(serverId, daysOfHistory) called at the instant `date`
getLibraryStatistics(serverId, daysOfHistory, date) ==
    LET currentStats == CurrentStats(serverId)
        totals == Totals(currentStats, 1,
                         [totalSize |-> 0, totalItems |-> 0, totalDurationMs |-> 0,
                          lastUpdated |-> Null])
        historyStartDate == HistoryStartDate(date, daysOfHistory)
        snapshots ==
            Descending({ r \in librarySnapshots :
                           WhereServer(serverId, r) /\ InHistory(historyStartDate, r) })
    IN  [current |->
            [totalSize |-> totals.totalSize,
             totalItems |-> totals.totalItems,
             totalHours |-> Divide(totals.totalDurationMs, MsPerHour),
             lastUpdated |-> LastUpdated(totals.lastUpdated),
             libraries |-> [i \in 1..Len(currentStats) |-> MediaLibraryStats(currentStats[i])]],
         historical |-> SortByDate(SnapshotsByDate(snapshots, 1, <<>>))]

\* the request is served: the route calls getLibraryStatistics at some time of
\* `today`, in a process whose local time is `timezone` hours ahead of UTC
GetLibraryStatistics(serverIds, days, times, zones) ==
    /\ pc = "idle"
    /\ response = <<>>
    /\ \E serverId \in serverIds, daysOfHistory \in days, timeOfDay \in times, timezone \in zones :
          response' =
             << [serverId |-> serverId, daysOfHistory |-> daysOfHistory,
                 timeOfDay |-> timeOfDay, timezone |-> timezone,
                 body |-> getLibraryStatistics(serverId, daysOfHistory,
                                               Midnight(today, timezone) + timeOfDay)] >>
    /\ UNCHANGED << dbVars, now, today, pc, runVars, fetchVars, stats, traceVars, allVars, jobs,
                    queueVars >>

(***************************************************************************)
(* GET /libraries                                                          *)
(***************************************************************************)
\* authUser.serverIds.includes(serverId)
Includes(serverIds, serverId) == \E i \in 1..Len(serverIds) : serverIds[i] = serverId

\* Array.prototype.filter with the callback of lines 67-69
RECURSIVE FilterByAccess(_, _)
FilterByAccess(libs, serverIds) ==
    IF libs = <<>> THEN <<>>
    ELSE (IF Includes(serverIds, Head(libs).serverId) THEN << Head(libs) >> ELSE <<>>)
         \o FilterByAccess(Tail(libs), serverIds)

\* libraries.reduce((sum, lib) => sum + lib.size, 0) and the like, lines 79-84;
\* the sum of the hours is kept as a fraction of MsPerHour
RECURSIVE Reduce(_, _)
Reduce(libs, sum) ==
    IF libs = <<>> THEN sum
    ELSE Reduce(Tail(libs),
                [totalSize |-> sum.totalSize + Head(libs).size,
                 totalItems |-> sum.totalItems + Head(libs).itemCount,
                 totalHours |-> Divide(sum.totalHours[1] + Head(libs).hours[1], MsPerHour)])

\* validateServerAccess(authUser, serverId), lines 43-48: null, or the message
\* of the 403 when the user has no access to the server (a string, kept as a
\* sequence of one element next to the empty sequence of null)
NoAccess == << "no access to this server" >>
validateServerAccess(authUser, serverId) ==
    IF authUser.role = "owner" \/ Includes(authUser.serverIds, serverId)
    THEN NullString
    ELSE NoAccess

\* the condition of line 66
Restricted(authUser) ==
    authUser.role # "owner" /\ authUser.role # "admin" /\ Len(authUser.serverIds) > 0

\* the handler of GET /libraries, lines 33-92, for a valid query
GetLibrariesHandler(authUser, serverId, days, date) ==
    IF serverId # "" /\ validateServerAccess(authUser, serverId) # NullString
    THEN [status |-> 403, body |-> validateServerAccess(authUser, serverId)]
    ELSE LET result == getLibraryStatistics(serverId, days, date)
             libs == FilterByAccess(result.current.libraries, authUser.serverIds)
             sums == Reduce(libs, [totalSize |-> 0, totalItems |-> 0,
                                   totalHours |-> Divide(0, MsPerHour)])
         IN  IF Restricted(authUser)
             THEN [status |-> 200,
                   body |-> [result EXCEPT !.current.libraries = libs,
                                           !.current.totalSize = sums.totalSize,
                                           !.current.totalItems = sums.totalItems,
                                           !.current.totalHours = sums.totalHours]]
             ELSE [status |-> 200, body |-> result]

\* request.user: the owner, and users that may see one server, both, or none
AuthUsers ==
    { [role |-> "owner", serverIds |-> <<>>],
      [role |-> "user", serverIds |-> << "s1" >>],
      [role |-> "user", serverIds |-> << "s2" >>],
      [role |-> "user", serverIds |-> << "s1", "s2" >>],
      [role |-> "user", serverIds |-> <<>>] }

\* a request of GET /libraries is served at some time of `today`
GetLibraries(users, serverIds, days, times, zones) ==
    /\ pc = "idle"
    /\ response = <<>>
    /\ \E authUser \in users, serverId \in serverIds, daysOfHistory \in days,
          timeOfDay \in times, timezone \in zones :
          LET reply == GetLibrariesHandler(authUser, serverId, daysOfHistory,
                                           Midnight(today, timezone) + timeOfDay)
          IN  response' =
                 << [user |-> authUser, serverId |-> serverId,
                     daysOfHistory |-> daysOfHistory,
                     timeOfDay |-> timeOfDay, timezone |-> timezone,
                     status |-> reply.status, body |-> reply.body] >>
    /\ UNCHANGED << dbVars, now, today, pc, runVars, fetchVars, stats, traceVars, allVars, jobs,
                    queueVars >>

(***************************************************************************)
(* What the two tables may hold when a request is served.                  *)
(***************************************************************************)
\* the items of a fetch that the backend answers in full, with items of one kind
RECURSIVE FetchAll(_, _, _, _)
FetchAll(type, count, kind, fetched) ==
    IF fetched >= MaxItems(type, count) THEN <<>>
    ELSE LET n == BatchSize(type, count, fetched)
         IN  << [item |-> kind, n |-> n, pos |-> Offset(type, count, fetched)] >>
             \o FetchAll(type, count, kind, fetched + n)

\* the stats updateServerLibraryStats computes from such a fetch
LibraryStats(s, lib, count, kind) ==
    IF ServerType[s] = "plex"
    THEN calculatePlexLibraryStats(FetchAll("plex", count, kind, 0), lib.type, count,
                                   PlexShouldSample(count))
    ELSE calculateJellyfinLibraryStats(FetchAll("jellyfin", count, kind, 0), lib.type, count,
                                       JellyfinShouldSample(count))

\* the record of a library of `count` items, last updated at the instant `at`
StatisticsRow(s, lib, count, at) ==
    [serverId |-> s, libraryId |-> lib.id, libraryType |-> lib.type,
     stats |-> LibraryStats(s, lib, count, 2), lastUpdatedAt |-> at]

\* the supported libraries of the servers, numbered
AllLibraries ==
    << [serverId |-> "s1", library |-> Lib("1", "movie")],
       [serverId |-> "s2", library |-> Lib("1", "tvshows")],
       [serverId |-> "s1", library |-> Lib("3", "show")] >>

\* library_statistics: any of the libraries, the k-th with k items (the last
\* with SAMPLING_THRESHOLD + 1), updated at different instants
SomeStatistics ==
    LET count(k) == IF k = Len(AllLibraries) THEN SAMPLING_THRESHOLD + 1 ELSE k
        at(k) == ((k * 2) % Len(AllLibraries)) + 1
    IN  { { StatisticsRow(AllLibraries[k].serverId, AllLibraries[k].library, count(k), at(k))
            : k \in present }
          : present \in SUBSET (1..Len(AllLibraries)) }

\* the time zones of the processes: UTC and one hour ahead of it
TimeZones == {0, 1}

\* library_snapshots: up to MaxSnapshots rows, each taken on one of the days
\* 1 .. MaxHistoryDay in one of the time zones, of a library that held as many
\* items as the number of the day
SnapshotRows ==
    { SnapshotOf(StatisticsRow(AllLibraries[k].serverId, AllLibraries[k].library, day, 0),
                 Midnight(day, zone)) :
        k \in 1..2, day \in 1..MaxHistoryDay, zone \in TimeZones }

SomeSnapshots == { rows \in SUBSET SnapshotRows : Cardinality(rows) <= MaxSnapshots }

InitReader ==
    /\ libraryStatistics \in SomeStatistics
    /\ librarySnapshots \in SomeSnapshots
    /\ now = Len(AllLibraries)
    /\ today = MaxHistoryDay
    /\ computed = {}
    /\ InitLocals

(***************************************************************************)
(* Two library-stats jobs of type 'update-server' that run next to each    *)
(* other, in two worker processes on the same database.  Each job is the   *)
(* sequence of its database statements; what a job fetched from the        *)
(* backend is an input of its upsert.                                      *)
(***************************************************************************)
\* what the jobs leave alone
jobFrame ==
    << computed, today, pc, runVars, fetchVars, stats, traceVars, allVars, response,
       queueVars >>

\* processLibraryStatsJob calls updateServerLibraryStats(s), which gets the
\* libraries of the server and filters them (lines 650-706)
JobStart(j, s) ==
    /\ jobs[j].pc = "new"
    /\ jobs' = [jobs EXCEPT ![j] =
                   [@ EXCEPT !.pc = "update", !.serverId = s,
                             !.filteredLibraries = Filter(ServerType[s], Libraries(s))]]
    /\ UNCHANGED << dbVars, now, jobFrame >>

\* one iteration of the for loop of line 709: the library was fetched with
\* `count` items, its stats are upserted (lines 713-777)
JobProcessLibrary(j, counts) ==
    /\ jobs[j].pc = "update"
    /\ jobs[j].filteredLibraries # <<>>
    /\ \E count \in counts :
          LET lib == Head(jobs[j].filteredLibraries)
              st == LibraryStats(jobs[j].serverId, lib, count, 2)
          IN  /\ now' = now + 1
              /\ libraryStatistics' =
                    Upsert(libraryStatistics,
                           [serverId |-> jobs[j].serverId, libraryId |-> lib.id,
                            libraryType |-> lib.type, stats |-> st, lastUpdatedAt |-> now'])
              /\ jobs' = [jobs EXCEPT ![j] =
                             [@ EXCEPT !.filteredLibraries = Tail(@),
                                       !.processedLibraryIds = Append(@, lib.id),
                                       !.upserted = Append(@, [id |-> lib.id, stats |-> st])]]
    /\ UNCHANGED << librarySnapshots, jobFrame >>

\* lines 783-797: the batched lastUpdatedAt update; updateServerLibraryStats
\* returns and processLibraryStatsJob calls createDailySnapshot (line 225)
JobFinishUpdate(j) ==
    /\ jobs[j].pc = "update"
    /\ jobs[j].filteredLibraries = <<>>
    /\ IF jobs[j].processedLibraryIds # <<>>
       THEN /\ now' = now + 1
            /\ libraryStatistics' =
                  { IF r.serverId = jobs[j].serverId
                       /\ \E i \in 1..Len(jobs[j].processedLibraryIds) :
                             jobs[j].processedLibraryIds[i] = r.libraryId
                    THEN [r EXCEPT !.lastUpdatedAt = now']
                    ELSE r : r \in libraryStatistics }
       ELSE UNCHANGED << now, libraryStatistics >>
    /\ jobs' = [jobs EXCEPT ![j] = [@ EXCEPT !.pc = "snapshot"]]
    /\ UNCHANGED << librarySnapshots, jobFrame >>

\* lines 807-810: createDailySnapshot reads the records of the server
JobReadStats(j) ==
    /\ jobs[j].pc = "snapshot"
    /\ LET currentStats == { r \in libraryStatistics : r.serverId = jobs[j].serverId }
       IN  jobs' = [jobs EXCEPT ![j] =
                       [@ EXCEPT !.pc = IF currentStats = {} THEN "done" ELSE "insert",
                                 !.currentStats = currentStats,
                                 !.inserts = <<>>]]
    /\ UNCHANGED << dbVars, now, jobFrame >>

\* the records createDailySnapshot read whose insert is still to come
JobRemaining(j) ==
    { r \in jobs[j].currentStats :
        \A i \in 1..Len(jobs[j].inserts) : jobs[j].inserts[i].libraryId # r.libraryId }

\* the for loop of lines 812-833 has been through the insert of `stat`; after
\* the last record createDailySnapshot returns and the job completes
JobInserted(j, stat, ok) ==
    jobs' = [jobs EXCEPT ![j] =
                [@ EXCEPT !.pc = IF JobRemaining(j) = {stat} THEN "done" ELSE "insert",
                          !.inserts = Append(@, [libraryId |-> stat.libraryId, ok |-> ok])]]

\* one iteration of the for loop of lines 812-833: the insert of the snapshot
\* of one of the records read, in the order findMany returned them
JobInsertSnapshot(j) ==
    /\ jobs[j].pc = "insert"
    /\ \E stat \in JobRemaining(j) :
          /\ librarySnapshots' =
                InsertSnapshot(librarySnapshots, SnapshotOf(stat, Midnight(today, 0)))
          /\ JobInserted(j, stat, TRUE)
    /\ UNCHANGED << libraryStatistics, now, jobFrame >>

\* mutant: the error of the insert leaves createDailySnapshot, the job fails
JobInsertSnapshotThrows(j) ==
    /\ jobs[j].pc = "insert"
    /\ \E stat \in JobRemaining(j) :
          jobs' = [jobs EXCEPT ![j] =
                      [@ EXCEPT !.pc = "failed",
                                !.inserts = Append(@, [libraryId |-> stat.libraryId,
                                                       ok |-> FALSE])]]
    /\ UNCHANGED << dbVars, now, jobFrame >>

\* lines 827-832: the insert throws, the error is logged, the loop goes on
JobInsertSnapshotFails(j) ==
    /\ jobs[j].pc = "insert"
    /\ \E stat \in JobRemaining(j) : JobInserted(j, stat, FALSE)
    /\ UNCHANGED << dbVars, now, jobFrame >>

(***************************************************************************)
(* Specifications.                                                         *)
(***************************************************************************)
\* the engine: repeated runs and snapshots over two servers and two days, the
\* batched update of lines 783-795 succeeding
Next ==
    \/ \E s \in Servers \cup {UnknownServer} : UpdateServer(s, {Libraries(s)})
    \/ CountProbe(FewCounts)
    \/ CountProbeFails
    \/ FetchPage(FewItems, 0)
    \/ FetchEmptyPage
    \/ FetchPageFails
    \/ ProcessLibrary
    \/ ProcessLibraryFails
    \/ FinishUpdate
    \/ \E s \in Servers : CreateDailySnapshot(s)
    \/ NextDay

Spec == Init /\ [][Next]_vars

\* one library: the first run of a server that holds a single library
FirstRun(s) ==
    /\ libraryStatistics = {}
    /\ UpdateServer(s, SingleLibrary(s))

NextLibraryRun ==
    \/ \E s \in Servers : FirstRun(s)
    \/ CountProbe(AllCounts)
    \/ CountProbeFails
    \/ FetchPage(AllItems, MaxShortPages)
    \/ FetchEmptyPage
    \/ FetchPageFails
    \/ ProcessLibrary
    \/ ProcessLibraryFails
    \/ FinishUpdate
    \/ FinishUpdateFails

SpecLibrary == Init /\ [][NextLibraryRun]_vars

\* updateAllLibraryStats, again and again, over libraries of one item
NextUpdateAll ==
    \/ UpdateAllLibraryStats(AllServerLists)
    \/ UpdateNextServer
    \/ CountProbe({1})
    \/ CountProbeFails
    \/ FetchPage(FewItems, 0)
    \/ FetchEmptyPage
    \/ FetchPageFails
    \/ ProcessLibrary
    \/ ProcessLibraryFails
    \/ FinishUpdate
    \/ FinishUpdateFails
    \/ SnapshotNextServer
    \/ SnapshotNextServerFails

SpecUpdateAll == Init /\ [][NextUpdateAll]_vars

\* one request served over tables of any content, at midnight or at noon
NextReader ==
    GetLibraryStatistics({""} \cup Servers \cup {UnknownServer}, 1..MaxDaysOfHistory,
                         {0, HoursPerDay \div 2}, TimeZones)

SpecReader == InitReader /\ [][NextReader]_vars

\* one request of GET /libraries by any of the users, at midnight
NextRoute ==
    GetLibraries(AuthUsers, {""} \cup Servers, {MaxDaysOfHistory}, {0}, {0})

SpecRoute == InitReader /\ [][NextRoute]_vars

\* two jobs, each for one of the servers, their statements in any order; a
\* library has one item or two when a job fetches it
NextConcurrent ==
    \/ \E j \in Jobs, s \in Servers : JobStart(j, s)
    \/ \E j \in Jobs : JobProcessLibrary(j, {1, 2})
    \/ \E j \in Jobs : JobFinishUpdate(j)
    \/ \E j \in Jobs : JobReadStats(j)
    \/ \E j \in Jobs : JobInsertSnapshot(j)
    \/ \E j \in Jobs : JobInsertSnapshotFails(j)

SpecConcurrent == Init /\ [][NextConcurrent]_vars

(***************************************************************************)
(* The queue 'library-stats-update': manual updates enqueued by            *)
(* POST /libraries/refresh and run by the worker.  A job of the queue is   *)
(* known by its id; `n` tells the jobs that had the same id apart.         *)
(***************************************************************************)
\* defaultJobOptions.attempts
Attempts == 3

\* serverId ? `manual-update-${serverId}` : 'manual-update-all'
ExistingJobId(serverId) ==
    IF serverId # "" THEN "manual-update-" \o serverId ELSE "manual-update-all"

\* the jobs of the queue with the id `id`
JobsWithId(id) == { job \in libraryStatsQueue.jobs : job.id = id }

\* what the requests leave alone
queueFrame ==
    << dbVars, now, today, pc, runVars, fetchVars, stats, traceVars, allVars, response, jobs >>

\* POST /libraries/refresh comes in, lines 102-125: refused unless the user is
\* owner or admin and has access to the server, else enqueueLibraryStatsUpdate
\* is called
PostRefresh(c, users, serverIds) ==
    /\ enqueues[c].pc = "idle"
    /\ libraryStatsQueue.added < MaxJobsAdded
    /\ \E authUser \in users, serverId \in serverIds :
          enqueues' =
             [enqueues EXCEPT ![c] =
                 IF authUser.role # "owner" /\ authUser.role # "admin"
                 THEN [@ EXCEPT !.pc = "done", !.serverId = serverId, !.result = "403"]
                 ELSE IF serverId # "" /\ validateServerAccess(authUser, serverId) # NullString
                 THEN [@ EXCEPT !.pc = "done", !.serverId = serverId, !.result = "403"]
                 ELSE [@ EXCEPT !.pc = "getJob", !.serverId = serverId]]
    /\ UNCHANGED << libraryStatsQueue, queueFrame >>

\* const existingJob = await libraryStatsQueue.getJob(existingJobId)
GetJob(c) ==
    /\ enqueues[c].pc = "getJob"
    /\ LET found == JobsWithId(ExistingJobId(enqueues[c].serverId))
       IN  enqueues' =
              [enqueues EXCEPT ![c] =
                  IF found = {} THEN [@ EXCEPT !.pc = "add"]
                  ELSE [@ EXCEPT !.pc = "getState",
                                 !.existingJob = << [id |-> (CHOOSE job \in found : TRUE).id] >>]]
    /\ UNCHANGED << libraryStatsQueue, queueFrame >>

\* await existingJob.getState(): the state the job of that id has now, 'unknown'
\* when there is none any more; then the branches of lines 183-189
GetState(c) ==
    /\ enqueues[c].pc = "getState"
    /\ LET found == JobsWithId(enqueues[c].existingJob[1].id)
           state == IF found = {} THEN "unknown" ELSE (CHOOSE job \in found : TRUE).state
       IN  enqueues' =
              [enqueues EXCEPT ![c] =
                  IF state \in {"completed", "failed"}
                  THEN [@ EXCEPT !.pc = "remove", !.state = state]
                  ELSE IF state \in {"active", "waiting"}
                  THEN [@ EXCEPT !.pc = "done", !.state = state,
                                 !.result = enqueues[c].existingJob[1].id]
                  ELSE [@ EXCEPT !.pc = "add", !.state = state]]
    /\ UNCHANGED << libraryStatsQueue, queueFrame >>

\* await existingJob.remove(), line 185: the job of that id leaves the queue,
\* whatever its state is by now; the call throws when a worker holds the job,
\* and the route answers 500 (lines 134-137)
RemoveJob(c) ==
    /\ enqueues[c].pc = "remove"
    /\ LET found == JobsWithId(enqueues[c].existingJob[1].id)
       IN  IF \E job \in found : job.state = "active"
           THEN /\ enqueues' = [enqueues EXCEPT ![c].pc = "done", ![c].result = "500"]
                /\ UNCHANGED libraryStatsQueue
           ELSE /\ libraryStatsQueue' = [libraryStatsQueue EXCEPT !.jobs = @ \ found]
                /\ enqueues' = [enqueues EXCEPT ![c].pc = "add"]
    /\ UNCHANGED queueFrame

\* await libraryStatsQueue.add(MANUAL_UPDATE_JOB, data, { jobId }), lines 192-203:
\* a job whose id is in the queue already is not added again
AddJob(c) ==
    /\ enqueues[c].pc = "add"
    /\ LET serverId == enqueues[c].serverId
           jobId == ExistingJobId(serverId)
           job == [n |-> libraryStatsQueue.added + 1, id |-> jobId, state |-> "waiting",
                   attemptsMade |-> 0,
                   data |-> [type |-> IF serverId # "" THEN "update-server" ELSE "update-all",
                             serverId |-> serverId]]
       IN  /\ libraryStatsQueue' =
                IF JobsWithId(jobId) # {} THEN libraryStatsQueue
                ELSE [jobs |-> libraryStatsQueue.jobs \cup {job},
                      added |-> libraryStatsQueue.added + 1]
           /\ enqueues' = [enqueues EXCEPT ![c].pc = "done", ![c].result = jobId]
    /\ UNCHANGED queueFrame

\* the route has answered, lines 127-137
Reply(c) ==
    /\ enqueues[c].pc = "done"
    /\ enqueues' = [enqueues EXCEPT ![c] = NoEnqueue]
    /\ UNCHANGED << libraryStatsQueue, queueFrame >>

\* the worker, concurrency 1, takes a waiting job
WorkerTakesJob ==
    /\ \A job \in libraryStatsQueue.jobs : job.state # "active"
    /\ \E job \in libraryStatsQueue.jobs :
          /\ job.state = "waiting"
          /\ libraryStatsQueue' =
                [libraryStatsQueue EXCEPT
                    !.jobs = (@ \ {job}) \cup {[job EXCEPT !.state = "active"]}]
    /\ UNCHANGED << enqueues, queueFrame >>

\* processLibraryStatsJob returns, lines 91-93
WorkerCompletesJob ==
    /\ \E job \in libraryStatsQueue.jobs :
          /\ job.state = "active"
          /\ libraryStatsQueue' =
                [libraryStatsQueue EXCEPT
                    !.jobs = (@ \ {job}) \cup {[job EXCEPT !.state = "completed"]}]
    /\ UNCHANGED << enqueues, queueFrame >>

\* processLibraryStatsJob throws, lines 94-101: the job is delayed for another
\* attempt, and failed after the last
WorkerFailsJob ==
    /\ \E job \in libraryStatsQueue.jobs :
          /\ job.state = "active"
          /\ libraryStatsQueue' =
                [libraryStatsQueue EXCEPT
                    !.jobs = (@ \ {job}) \cup
                             {[job EXCEPT !.attemptsMade = @ + 1,
                                          !.state = IF job.attemptsMade + 1 < Attempts
                                                    THEN "delayed" ELSE "failed"]}]
    /\ UNCHANGED << enqueues, queueFrame >>

\* the backoff of a delayed job is over
DelayEnds ==
    /\ \E job \in libraryStatsQueue.jobs :
          /\ job.state = "delayed"
          /\ libraryStatsQueue' =
                [libraryStatsQueue EXCEPT
                    !.jobs = (@ \ {job}) \cup {[job EXCEPT !.state = "waiting"]}]
    /\ UNCHANGED << enqueues, queueFrame >>

\* removeOnComplete, removeOnFail: a finished job is dropped for its age
JobExpires ==
    /\ \E job \in libraryStatsQueue.jobs :
          /\ job.state \in {"completed", "failed"}
          /\ libraryStatsQueue' = [libraryStatsQueue EXCEPT !.jobs = @ \ {job}]
    /\ UNCHANGED << enqueues, queueFrame >>

\* who sends POST /libraries/refresh
RefreshUsers ==
    { [role |-> "owner", serverIds |-> <<>>], [role |-> "user", serverIds |-> << "s1" >>] }

\* requests to refresh s1 or all servers, in any order with the worker
NextQueue ==
    \/ \E c \in Callers : PostRefresh(c, RefreshUsers, {"", "s1"})
    \/ \E c \in Callers : GetJob(c)
    \/ \E c \in Callers : GetState(c)
    \/ \E c \in Callers : RemoveJob(c)
    \/ \E c \in Callers : AddJob(c)
    \/ \E c \in Callers : Reply(c)
    \/ WorkerTakesJob
    \/ WorkerCompletesJob
    \/ WorkerFailsJob
    \/ DelayEnds
    \/ JobExpires

SpecQueue == Init /\ [][NextQueue]_vars


(***************************************************************************)
(* Properties.                                                             *)
(***************************************************************************)
KnownRun == server \in Servers /\ library # NoLibrary

\* calculate* has returned `stats` for `library`, and the whole fetch is still in view
Calculated == KnownRun /\ pc = "finish"

\* the current library's row was upserted in this run
Persisted == Calculated /\ \E i \in 1..Len(processedLibraryIds) : processedLibraryIds[i] = library.id

CurrentRows == { r \in libraryStatistics : r.serverId = server /\ r.libraryId = library.id }

Sampled == totalCount > SAMPLING_THRESHOLD

IsShowLibrary ==
    \/ serverType = "plex" /\ library.type = "show"
    \/ serverType # "plex" /\ library.type = "tvshows"

\* the accumulator after the for loop over `items`
Accumulated ==
    IF serverType = "plex" THEN PlexFold(items, library.type, EmptyAcc)
    ELSE JellyfinFold(items, library.type, EmptyAcc)

\* the library positions of the items in `items`
Positions == UNION { items[i].pos .. (items[i].pos + items[i].n - 1) : i \in 1..Len(items) }

\* the backend answered every request with exactly the page asked for
Honest == \A i \in 1..Len(requests) : requests[i].ok /\ requests[i].length = requests[i].batchSize

RECURSIVE FetchedBefore(_)
FetchedBefore(i) == IF i <= 1 THEN 0 ELSE FetchedBefore(i - 1) + requests[i - 1].length

\* raw fields of the items in `items`
ItemHasMedia(k) == IF serverType = "plex" THEN PlexItems[k].Media ELSE JellyfinItems[k].MediaSources
ItemSize(k) == IF serverType = "plex" THEN PlexItems[k].size ELSE JellyfinItems[k].Size
ItemDurationMs(k) ==
    IF serverType = "plex" THEN PlexItems[k].duration ELSE Round(JellyfinItems[k].RunTimeTicks, 10000)
ItemIsHdr(k) == IF serverType = "plex" THEN PlexIsHdr(PlexItems[k]) ELSE JellyfinIsHdr(JellyfinItems[k])
ItemShow(k) == IF serverType = "plex" THEN PlexItems[k].grandparentRatingKey ELSE JellyfinItems[k].SeriesId
ItemSeason(k) == IF serverType = "plex" THEN PlexItems[k].parentRatingKey ELSE JellyfinItems[k].SeasonId
Kinds == { items[i].item : i \in 1..Len(items) }

\* C1: there is at most one snapshot row per (serverId, libraryId, snapshotDate),
\* and no step (update, snapshot, midnight) changes or removes an existing row.
C1_SnapshotWrittenOnce ==
    [][ /\ \A r \in librarySnapshots : r \in librarySnapshots'
        /\ \A r1, r2 \in librarySnapshots' : SameSnapshot(r1, r2) => r1 = r2 ]_vars

\* a snapshot of today exists whose library has since been overwritten with other
\* values, and a snapshot call is possible
C1_Witness ==
    /\ pc = "idle"
    /\ \E r \in librarySnapshots, c \in libraryStatistics :
          /\ r.snapshotDate = Midnight(today, 0)
          /\ SameLibrary(r, c)
          /\ r.totalItems # c.stats.totalItems

\* C2: every library that was ever processed successfully has exactly one current
\* record, which carries the stats of its latest successful processing, and there
\* are no other records.
C2_OneCurrentRecord ==
    /\ \A c \in computed :
          LET rows == { r \in libraryStatistics : SameLibrary(r, c) }
          IN  Cardinality(rows) = 1 /\ \A r \in rows : r.stats = c.stats
    /\ \A r \in libraryStatistics : \E c \in computed : SameLibrary(r, c)

\* a library was processed twice, with different stats
C2_Witness ==
    \E c \in computed :
        /\ c.upserts >= 2
        /\ c.previous # c.stats
        /\ \E r \in libraryStatistics : SameLibrary(r, c) /\ r.stats = c.stats

\* C3: in sampled mode against a backend that returns exactly the page asked for,
\* the positions folded are 0, stride, 2 * stride, ... and not a block at the start.
C3_StridedSample ==
    (KnownRun /\ pc = "calc" /\ Sampled /\ Honest) =>
        LET stride == totalCount \div SAMPLE_SIZE
        IN  /\ Positions = { k * stride : k \in 0..(itemsFetched - 1) }
            /\ Positions # 0..(itemsFetched - 1)

\* C4: above the threshold the plan is sampled, stride floor(totalCount / 1500),
\* maxItems min(totalCount, 1500), and every request offset is itemsFetched * stride
\* and at most totalCount - 1.
C4_SampledPlan ==
    (KnownRun /\ pc \in {"fetch", "calc", "finish"} /\ totalCount > SAMPLING_THRESHOLD) =>
        /\ ShouldSample(serverType, totalCount)
        /\ SamplingInterval(serverType, totalCount) = totalCount \div SAMPLE_SIZE
        /\ MaxItems(serverType, totalCount) = Min(totalCount, SAMPLE_SIZE)
        /\ \A i \in 1..Len(requests) :
              /\ requests[i].offset = FetchedBefore(i) * (totalCount \div SAMPLE_SIZE)
              /\ requests[i].offset <= totalCount - 1

\* a sampled fetch whose last request starts at the last strided offset
C4_Witness ==
    /\ KnownRun
    /\ totalCount > SAMPLING_THRESHOLD
    /\ \E i \in 1..Len(requests) :
          requests[i].offset = (SAMPLE_SIZE - 1) * (totalCount \div SAMPLE_SIZE)

\* C5: up to the threshold both fetchers plan exhaustively: not sampled, stride 1,
\* maxItems min(totalCount, 50000), and every request offset is itemsFetched.
C5_ExhaustivePlan ==
    (KnownRun /\ pc \in {"fetch", "calc", "finish"} /\ totalCount <= SAMPLING_THRESHOLD) =>
        /\ ~ PlexShouldSample(totalCount) /\ ~ JellyfinShouldSample(totalCount)
        /\ PlexSamplingInterval(totalCount) = 1 /\ JellyfinSamplingInterval(totalCount) = 1
        /\ PlexMaxItems(totalCount) = Min(totalCount, MAX_ITEMS_TO_PROCESS)
        /\ JellyfinMaxItems(totalCount) = Min(totalCount, MAX_ITEMS_TO_PROCESS)
        /\ \A i \in 1..Len(requests) : requests[i].offset = FetchedBefore(i)

\* a library of exactly SAMPLING_THRESHOLD items fetched in two pages
C5_Witness ==
    /\ KnownRun
    /\ totalCount = SAMPLING_THRESHOLD
    /\ Len(requests) = 2
    /\ requests[2].offset = PAGE_SIZE

\* C6: not sampled, the totals are the accumulated values; sampled with items
\* fetched, size, duration, HDR count (and show and season counts) are
\* round(accumulated * actualTotalCount / itemsFetched), the episode count is
\* actualTotalCount, and the average bitrate is round(bitrate sum / items with bitrate).
C6_Extrapolation ==
    Calculated =>
        LET acc == Accumulated
            shows == Cardinality(acc.uniqueShows)
            seasons == Cardinality(acc.uniqueSeasons)
            ratio(v) == (2 * v * totalCount + itemsFetched) \div (2 * itemsFetched)
        IN  /\ ~ Sampled =>
                /\ stats.totalSizeBytes = acc.totalSizeBytes
                /\ stats.totalDurationMs = acc.totalDurationMs
                /\ stats.hdrItemCount = acc.hdrItemCount
                /\ IsShowLibrary =>
                      /\ stats.totalShows = shows
                      /\ stats.totalSeasons = seasons
                      /\ stats.totalEpisodes = acc.totalEpisodes
            /\ (Sampled /\ itemsFetched > 0) =>
                /\ stats.totalSizeBytes = ratio(acc.totalSizeBytes)
                /\ stats.totalDurationMs = ratio(acc.totalDurationMs)
                /\ stats.hdrItemCount = ratio(acc.hdrItemCount)
                /\ IsShowLibrary =>
                      /\ stats.totalShows = ratio(shows)
                      /\ stats.totalSeasons = ratio(seasons)
                      /\ stats.totalEpisodes = totalCount
                /\ stats.avgBitrateKbps =
                      IF acc.itemsWithBitrate = 0 THEN 0
                      ELSE (2 * acc.totalBitrate + acc.itemsWithBitrate)
                               \div (2 * acc.itemsWithBitrate)

\* a sampled show library whose fetch came up short, with HDR items and bitrates
C6_Witness ==
    /\ Calculated /\ Sampled /\ IsShowLibrary
    /\ itemsFetched > 0 /\ itemsFetched < SAMPLE_SIZE
    /\ stats.hdrItemCount > 0
    /\ stats.avgBitrateKbps > 0
    /\ stats.totalShows > 1

\* all items fetched have a media entry, the size s, the duration d and no HDR stream
Uniform(s, d) ==
    \A k \in Kinds :
        ItemHasMedia(k) /\ ItemSize(k) = s /\ ItemDurationMs(k) = d /\ ~ ItemIsHdr(k)

\* C7: a movie-like library of N > 3000 uniform items (size s, duration d, no HDR),
\* every page request succeeding and exactly 1500 items fetched, is persisted with
\* totalItems = N, totalSizeBytes = N * s, totalDurationMs = N * d, hdrItemCount = 0.
C7_UniformLibrary ==
    (Persisted /\ ~ IsShowLibrary /\ Sampled /\ itemsFetched = SAMPLE_SIZE
     /\ \A i \in 1..Len(requests) : requests[i].ok) =>
        \A k \in Kinds :
            Uniform(ItemSize(k), ItemDurationMs(k)) =>
                \A r \in CurrentRows :
                    /\ r.stats.totalItems = totalCount
                    /\ r.stats.totalSizeBytes = totalCount * ItemSize(k)
                    /\ r.stats.totalDurationMs = totalCount * ItemDurationMs(k)
                    /\ r.stats.hdrItemCount = 0

\* the library of 10000 uniform items is persisted with 10000 times the item size
C7_Witness ==
    /\ Persisted /\ ~ IsShowLibrary /\ totalCount = 10000 /\ itemsFetched = SAMPLE_SIZE
    /\ \A i \in 1..Len(requests) : requests[i].ok
    /\ \E k \in Kinds :
          /\ Uniform(ItemSize(k), ItemDurationMs(k))
          /\ ItemSize(k) > 0 /\ ItemDurationMs(k) > 0
          /\ \E r \in CurrentRows : r.stats.totalSizeBytes = 10000 * ItemSize(k)

\* C8 as stated: a count of 0, or a fetch that yields no items, gives all-zero stats.
C8_AllZero ==
    (Calculated /\ (totalCount = 0 \/ itemsFetched = 0)) =>
        /\ stats.totalItems = 0
        /\ stats.totalSizeBytes = 0
        /\ stats.totalDurationMs = 0
        /\ stats.avgFileSizeBytes = 0
        /\ stats.avgDurationMs = 0
        /\ stats.avgBitrateKbps = 0
        /\ stats.hdrItemCount = 0

\* C8 amended: a count of 0, or a fetch that yields no items, gives zero sizes,
\* durations, averages and HDR count; totalItems is 0 for a show-like library and
\* the probed totalCount otherwise.
C8_ZeroFetch ==
    (Calculated /\ (totalCount = 0 \/ itemsFetched = 0)) =>
        /\ stats.totalItems = IF IsShowLibrary THEN 0 ELSE totalCount
        /\ stats.totalSizeBytes = 0
        /\ stats.totalDurationMs = 0
        /\ stats.avgFileSizeBytes = 0
        /\ stats.avgDurationMs = 0
        /\ stats.avgBitrateKbps = 0
        /\ stats.hdrItemCount = 0

\* a sampled movie-like library whose first page request failed
C8_Witness ==
    /\ Calculated /\ Sampled /\ ~ IsShowLibrary
    /\ itemsFetched = 0
    /\ Len(requests) = 1 /\ ~ requests[1].ok
    /\ stats.totalItems = totalCount

\* C9: a show-like library has totalItems = totalShows; not sampled, totalShows and
\* totalSeasons count the distinct show and season ids of the fetched episodes and
\* totalEpisodes the episodes; any other library has the three fields absent, also
\* in its persisted record.
C9_ShowCardinality ==
    Calculated =>
        /\ IsShowLibrary =>
              /\ stats.totalItems = stats.totalShows
              /\ ~ Sampled =>
                    /\ stats.totalShows = Cardinality({ ItemShow(k) : k \in Kinds } \ {""})
                    /\ stats.totalSeasons = Cardinality({ ItemSeason(k) : k \in Kinds } \ {""})
                    /\ stats.totalEpisodes = itemsFetched
        /\ ~ IsShowLibrary =>
              /\ stats.totalEpisodes = Null /\ stats.totalSeasons = Null /\ stats.totalShows = Null
              /\ Persisted =>
                    \A r \in CurrentRows :
                        /\ r.stats.totalEpisodes = Null
                        /\ r.stats.totalSeasons = Null
                        /\ r.stats.totalShows = Null

\* a show library fetched exhaustively: more seasons than shows, more episodes than seasons
C9_Witness ==
    /\ Calculated /\ IsShowLibrary /\ ~ Sampled
    /\ stats.totalShows >= 1
    /\ stats.totalSeasons > stats.totalShows
    /\ stats.totalEpisodes > stats.totalSeasons
    /\ stats.totalItems = stats.totalShows

\* C10: avgFileSizeBytes and avgDurationMs are the returned totals divided by the
\* returned totalItems, rounded, and 0 when totalItems is 0.
C10_Averages ==
    Calculated =>
        /\ stats.avgFileSizeBytes =
              IF stats.totalItems = 0 THEN 0
              ELSE (2 * stats.totalSizeBytes + stats.totalItems) \div (2 * stats.totalItems)
        /\ stats.avgDurationMs =
              IF stats.totalItems = 0 THEN 0
              ELSE (2 * stats.totalDurationMs + stats.totalItems) \div (2 * stats.totalItems)

\* a sampled show library whose averages are taken over the extrapolated show count
C10_Witness ==
    /\ Calculated /\ Sampled /\ IsShowLibrary
    /\ stats.totalItems > 0 /\ stats.totalItems # totalCount /\ stats.totalItems # itemsFetched
    /\ stats.avgFileSizeBytes > 0
    /\ stats.avgDurationMs > 0

\* the entries of the current libraries list that a request for the running
\* update's server gets for the library `id`
ReturnedFor(id) ==
    LET libs == getLibraryStatistics(server, 1, Midnight(today, 0)).current.libraries
    IN  { libs[i] : i \in { j \in 1..Len(libs) : libs[j].id = id } }

\* C11: once the record of a library holds collected values, a run whose count
\* probe or page request for that library fails leaves what the reader returns for
\* the library as it was: the size, item count and hours of the previous collection.
C11_FailureKeepsValues ==
    (Persisted /\ ~ Collected) =>
        \A c \in computed :
            (c.serverId = server /\ c.libraryId = library.id
             /\ c.upserts >= 2 /\ c.previous.totalSizeBytes > 0) =>
                \A lib \in ReturnedFor(library.id) :
                    /\ lib.size = c.previous.totalSizeBytes
                    /\ lib.itemCount = c.previous.totalItems
                    /\ lib.hours = Divide(c.previous.totalDurationMs, MsPerHour)

\* the elements of a sequence
Range(seq) == { seq[i] : i \in 1..Len(seq) }

\* the libraries probed, in the order of the probes
ProbedLibraries(probes) == [i \in 1..Len(probes) |-> probes[i].library]

\* the ids of the libraries skipped
SkippedIds(skips) == { skips[i].id : i \in 1..Len(skips) }

\* the updates that updateAllLibraryStats called and that got their libraries
Updates == { k \in 1..Len(calls) : calls[k].op = "update" /\ calls[k].libraries # <<>> }

\* C12: however many libraries of an update fail in their aggregation or upsert,
\* their records stay as they were, the update probes every supported library of
\* the server and upserts every one that did not fail, and it does not end early:
\* an update that got its libraries has been through all of them when it ends, and
\* only the update of lastUpdatedAt after the last library can make it throw.
C12_FailuresAreSkipped ==
    /\ \A i \in 1..Len(skipped) :
          { r \in libraryStatistics : r.serverId = server /\ r.libraryId = skipped[i].id }
              = skipped[i].rows
    /\ \A k \in Updates :
          LET e == calls[k]
              supported == Filter(ServerType[e.server], e.libraries)
          IN  /\ ProbedLibraries(e.probed) = supported
              /\ SkippedIds(e.skipped) \cap Range(e.processed) = {}
              /\ \A lib \in Range(supported) :
                    \/ lib.id \in SkippedIds(e.skipped)
                    \/ /\ lib.id \in Range(e.processed)
                       /\ \E r \in libraryStatistics :
                             r.serverId = e.server /\ r.libraryId = lib.id

\* an update of s1 returned after its first library, which has a record, failed
\* and its last library was upserted
C12_Witness ==
    \E k \in Updates :
        /\ calls[k].server = "s1"
        /\ calls[k].result = "completed"
        /\ Len(calls[k].skipped) = 1
        /\ calls[k].skipped[1].id = "1"
        /\ calls[k].skipped[1].rows # {}
        /\ calls[k].processed = << "3" >>

\* the calls of updateAllLibraryStats after the k-th
After(k) == SubSeq(calls, k + 1, Len(calls))

\* the servers whose update a sequence of calls holds, in order
RECURSIVE UpdatedServers(_)
UpdatedServers(log) ==
    IF log = <<>> THEN <<>>
    ELSE (IF Head(log).op = "update" THEN << Head(log).server >> ELSE <<>>)
         \o UpdatedServers(Tail(log))

\* updateAllLibraryStats has returned
AllDone == pc = "idle" /\ allServers = <<>> /\ calls # <<>>

\* C13, updateAll: when updateAllLibraryStats has returned, every call it made,
\* whatever its outcome, was followed by the update of every server after it in
\* the list, in order, and every update that did not throw by the snapshot of its
\* server.
C13_EveryServerHandled ==
    AllDone =>
        \A k \in 1..Len(calls) :
            /\ UpdatedServers(After(k)) = calls[k].rest
            /\ (calls[k].op = "update" /\ calls[k].result # "threw") =>
                  /\ k < Len(calls)
                  /\ calls[k + 1].op = "snapshot"
                  /\ calls[k + 1].server = calls[k].server

\* C13, updateServer: an update that ends because the server is unknown or
\* because getLibraries failed returns to its caller, has sent no count or page
\* request and leaves both tables as they are.
C13_EarlyReturn ==
    (/\ calls' # calls
     /\ calls' # <<>>
     /\ calls'[Len(calls')].result \in {"not found", "no libraries"}) =>
        /\ pc' = "snapshot"
        /\ libraryStatistics' = libraryStatistics
        /\ librarySnapshots' = librarySnapshots
        /\ probed = <<>> /\ probed' = <<>>
        /\ requests = <<>> /\ requests' = <<>>

\* C13: both parts
C13_ServerFailures == [] C13_EveryServerHandled /\ [][C13_EarlyReturn]_vars

\* updateAllLibraryStats has returned: the first server was unknown, the update
\* of the second was called and its snapshot threw; or the update of the first
\* threw and the second was updated and snapshotted
C13_Witness ==
    /\ AllDone
    /\ \/ /\ Len(calls) = 4
          /\ calls[1].server = "s0" /\ calls[1].result = "not found"
          /\ calls[3].op = "update" /\ calls[3].server = "s2"
          /\ calls[3].processed # <<>>
          /\ calls[4].op = "snapshot" /\ calls[4].result = "threw"
       \/ /\ Len(calls) = 3
          /\ calls[1].op = "update" /\ calls[1].result = "threw"
          /\ calls[1].processed # <<>>
          /\ calls[2].op = "update" /\ calls[2].server = "s2"
          /\ calls[3].op = "snapshot" /\ calls[3].result = "completed"

\* every number of a record's statistics is zero (a count that does not apply
\* to the library's type is null)
AllZero(st) ==
    /\ st.totalItems = 0 /\ st.totalSizeBytes = 0 /\ st.totalDurationMs = 0
    /\ st.avgFileSizeBytes = 0 /\ st.avgDurationMs = 0 /\ st.avgBitrateKbps = 0
    /\ st.hdrItemCount = 0
    /\ st.totalEpisodes \in {0, Null}
    /\ st.totalSeasons \in {0, Null}
    /\ st.totalShows \in {0, Null}

\* the libraries this update has probed or is about to probe, in order
Attempted == ProbedLibraries(probed) \o (IF pc = "probe" THEN << library >> ELSE <<>>)

\* C14: after a failed count probe the count of the library is 0, the update
\* goes to the calculation without a page request, the statistics calculated and
\* upserted for the library are all zero, and the update goes on: no library of
\* the filtered list is dropped, and at the end of the loop the library was
\* upserted or skipped by the catch of its own iteration.
C14_ProbeFailureGivesZero ==
    \A i \in 1..Len(probed) :
        ~ probed[i].ok =>
            /\ (i = Len(probed) /\ pc \in {"fetch", "calc"}) =>
                  /\ totalCount = 0
                  /\ pc = "calc"
                  /\ requests = <<>>
                  /\ items = <<>>
                  /\ AllZero(CalculateStats)
            /\ probed[i].library.id \in Range(processedLibraryIds) =>
                  \A r \in libraryStatistics :
                      (r.serverId = server /\ r.libraryId = probed[i].library.id) =>
                          AllZero(r.stats)
            /\ Attempted \o filteredLibraries = Filter(serverType, libraries)
            /\ pc = "finish" =>
                  probed[i].library.id \in Range(processedLibraryIds) \cup SkippedIds(skipped)

\* the update of s1 is at the end of its loop: the probe of library 1 failed and
\* its record is all zero, library 3 was probed, fetched and upserted after it
C14_Witness ==
    /\ pc = "finish"
    /\ server = "s1"
    /\ Len(probed) = 2
    /\ ~ probed[1].ok
    /\ probed[2].ok
    /\ processedLibraryIds = << "1", "3" >>
    /\ \E r \in libraryStatistics :
          r.serverId = "s1" /\ r.libraryId = "1" /\ AllZero(r.stats)
    /\ \E r \in libraryStatistics :
          r.serverId = "s1" /\ r.libraryId = "3" /\ r.stats.totalItems > 0

\* the collection types that are not supported, per server type
UnsupportedTypes(type) ==
    IF type = "plex" THEN {"collection"} ELSE {"boxsets", "collections"}

\* the libraries of the list that are of a supported type, in list order
SupportedOf(type, libs) ==
    LET Test(lib) == lib.type \notin UnsupportedTypes(type)
    IN  SelectSeq(libs, Test)

IsPrefix(s, t) == Len(s) <= Len(t) /\ s = SubSeq(t, 1, Len(s))

\* C20: no record is of an unsupported collection type; the libraries an update
\* has probed, with the one it is about to probe, are the first supported
\* libraries of the list getLibraries returned, in list order, all of them once
\* the loop has ended; the library being fetched or calculated is the one
\* probed last.
C20_OnlySupportedInOrder ==
    /\ \A r \in libraryStatistics :
          r.libraryType \notin UnsupportedTypes(ServerType[r.serverId])
    /\ server \in Servers =>
          /\ IsPrefix(Attempted, SupportedOf(serverType, libraries))
          /\ pc = "finish" => Attempted = SupportedOf(serverType, libraries)
          /\ pc \in {"fetch", "calc"} => library = probed[Len(probed)].library
          /\ \A i \in 1..Len(processedLibraryIds) :
                \E j \in 1..Len(probed) : probed[j].library.id = processedLibraryIds[i]

\* the update of s1 has probed and upserted the movie library and the show
\* library, the collection between them left out
C20_Witness ==
    /\ pc = "finish"
    /\ server = "s1"
    /\ libraries = Libraries("s1")
    /\ ProbedLibraries(probed) = << Lib("1", "movie"), Lib("3", "show") >>
    /\ processedLibraryIds = << "1", "3" >>
    /\ \A r \in libraryStatistics : r.serverId = "s1" => r.libraryId \in {"1", "3"}

(***************************************************************************)
(* getLibraryStatistics                                                    *)
(***************************************************************************)
\* the request that was served and what it returned
Served == response # <<>>
Query == response[1]
Current == response[1].body.current
Historical == response[1].body.historical

\* the current records the request selects: all, or those of its server
Selected ==
    { r \in libraryStatistics : Query.serverId = "" \/ r.serverId = Query.serverId }

\* the sums of size, items and duration over a set of records
RECURSIVE SumStats(_)
SumStats(rows) ==
    IF rows = {} THEN [size |-> 0, items |-> 0, durationMs |-> 0]
    ELSE LET row == CHOOSE r \in rows : TRUE
             rest == SumStats(rows \ {row})
         IN  [size |-> rest.size + row.stats.totalSizeBytes,
              items |-> rest.items + row.stats.totalItems,
              durationMs |-> rest.durationMs + row.stats.totalDurationMs]

\* the latest lastUpdatedAt of a non-empty set of records
Latest(rows) ==
    CHOOSE at \in { r.lastUpdatedAt : r \in rows } : \A r \in rows : r.lastUpdatedAt <= at

\* C16: the totals of the current block are the sums of size, items and
\* duration over exactly the selected records (all, or those of the given
\* server), duration in hours; the list holds one entry per selected record, with
\* its size, items and duration; lastUpdated is the latest lastUpdatedAt of the
\* selected records.
C16_TotalsAreSums ==
    Served =>
        /\ Current.totalSize = SumStats(Selected).size
        /\ Current.totalItems = SumStats(Selected).items
        /\ Current.totalHours = Divide(SumStats(Selected).durationMs, MsPerHour)
        /\ Len(Current.libraries) = Cardinality(Selected)
        /\ \A r \in Selected :
              \E i \in 1..Len(Current.libraries) :
                  /\ Current.libraries[i].id = r.libraryId
                  /\ Current.libraries[i].serverId = r.serverId
                  /\ Current.libraries[i].size = r.stats.totalSizeBytes
                  /\ Current.libraries[i].itemCount = r.stats.totalItems
                  /\ Current.libraries[i].hours = Divide(r.stats.totalDurationMs, MsPerHour)
        /\ Selected # {} => Current.lastUpdated = toISOString(Latest(Selected))

\* a request for s1 was served from a table that holds its two libraries and the
\* library of s2
C16_Witness ==
    /\ Served
    /\ Query.serverId = "s1"
    /\ Cardinality(Selected) = 2
    /\ Cardinality(libraryStatistics) = 3
    /\ Current.totalItems > 0

\* both tables are empty
NoRecords == libraryStatistics = {} /\ librarySnapshots = {}

\* the current block is zeroed and the history is empty
Zeroed ==
    /\ Current.totalSize = 0
    /\ Current.totalItems = 0
    /\ Current.totalHours = Divide(0, MsPerHour)
    /\ Current.libraries = <<>>
    /\ Historical = <<>>

\* C17 as stated: with no current records and no snapshots the current block is
\* zeroed, the history is empty and no field of the current block is null.
C17_NoNullField ==
    (Served /\ NoRecords) => (Zeroed /\ Current.lastUpdated # NullString)

\* C17: with no current records and no snapshots the current block is zeroed
\* and the history is empty; the one field that is null is lastUpdated, no
\* record having been updated.
C17_EmptyIsZeroed ==
    (Served /\ NoRecords) => (Zeroed /\ Current.lastUpdated = NullString)

\* a request was served from empty tables
C17_Witness == Served /\ NoRecords /\ Query.serverId = ""

\* the snapshots the query of lines 927-930 loads
Loaded ==
    { r \in librarySnapshots :
        /\ WhereServer(Query.serverId, r)
        /\ InHistory(HistoryStartDate(Midnight(today, Query.timezone) + Query.timeOfDay,
                                      Query.daysOfHistory), r) }

\* the loaded snapshots of a date, the date of a snapshot being the date part of
\* its snapshotDate in ISO format
LoadedOn(date) == { r \in Loaded : DateString(r.snapshotDate) = date }

Returned(r) ==
    \E i \in 1..Len(Historical) :
        /\ Historical[i].date = DateString(r.snapshotDate)
        /\ \E k \in 1..Len(Historical[i].libraries) :
              Historical[i].libraries[k] = MediaLibrarySnapshot(r)

\* C19: of the snapshots taken in the time zone of the request, the history
\* holds exactly those of the selected server whose day lies in
\* [today - daysOfHistory, today], whatever the time of day of the request.
C19_ClosedRange ==
    Served =>
        \A day \in 0..MaxHistoryDay :
            \A r \in librarySnapshots :
                r.snapshotDate = Midnight(day, Query.timezone) =>
                    (Returned(r) <=>
                        /\ WhereServer(Query.serverId, r)
                        /\ today - Query.daysOfHistory <= day
                        /\ day <= today)

(***************************************************************************)
(* Concurrent jobs                                                         *)
(***************************************************************************)
\* both jobs were for the same server and have ended, no insert having failed
BothDone ==
    /\ \A j \in Jobs : jobs[j].pc = "done"
    /\ \A j \in Jobs : \A i \in 1..Len(jobs[j].inserts) : jobs[j].inserts[i].ok
    /\ jobs[1].serverId = jobs[2].serverId

\* the stats job j upserted for a library
UpsertedBy(j, id) ==
    (CHOOSE u \in Range(jobs[j].upserted) : u.id = id).stats

\* the tables are as they are after job `first` has run from start to end and
\* job `second` after it: the records hold what the second upserted, today's
\* snapshots what the first upserted (the inserts of the second do nothing)
AsOneAfterTheOther(first, second) ==
    LET s == jobs[first].serverId
    IN  \A lib \in Range(Filter(ServerType[s], Libraries(s))) :
            /\ \A r \in libraryStatistics :
                  (r.serverId = s /\ r.libraryId = lib.id) =>
                      r.stats = UpsertedBy(second, lib.id)
            /\ \A r \in librarySnapshots :
                  (r.serverId = s /\ r.libraryId = lib.id) =>
                      LET st == UpsertedBy(first, lib.id)
                      IN  /\ r.totalItems = st.totalItems
                          /\ r.totalSizeBytes = st.totalSizeBytes
                          /\ r.totalDurationMs = st.totalDurationMs

\* C15: when two jobs for the same server have ended, however their statements
\* were interleaved, there is one record per library and one snapshot per
\* library for the day, and their values are those of the two jobs run one
\* after the other, in one order or the other.
C15_InterleavingIndependent ==
    BothDone =>
        LET s == jobs[1].serverId
        IN  /\ \A lib \in Range(Filter(ServerType[s], Libraries(s))) :
                  /\ Cardinality({ r \in libraryStatistics :
                                     r.serverId = s /\ r.libraryId = lib.id }) = 1
                  /\ Cardinality({ r \in librarySnapshots :
                                     /\ r.serverId = s /\ r.libraryId = lib.id
                                     /\ r.snapshotDate = Midnight(today, 0) }) = 1
            /\ AsOneAfterTheOther(1, 2) \/ AsOneAfterTheOther(2, 1)

\* C21: a snapshot insert that fails does not end createDailySnapshot and does
\* not fail the job: the inserts attempted are inserts of records that were
\* read, at most one per record, and when createDailySnapshot has returned one
\* insert was attempted for every record it read, whichever of them failed.
C21_EveryInsertAttempted ==
    \A j \in Jobs :
        /\ jobs[j].pc # "failed"
        /\ \A i \in 1..Len(jobs[j].inserts) :
              /\ \E r \in jobs[j].currentStats : r.libraryId = jobs[j].inserts[i].libraryId
              /\ \A k \in 1..Len(jobs[j].inserts) :
                    jobs[j].inserts[k].libraryId = jobs[j].inserts[i].libraryId => k = i
        /\ jobs[j].pc = "done" =>
              /\ JobRemaining(j) = {}
              /\ Len(jobs[j].inserts) = Cardinality(jobs[j].currentStats)

\* a job of s1 has ended: the insert of its first snapshot failed, the insert
\* of the second was made and the snapshot is in the table
C21_Witness ==
    \E j \in Jobs :
        /\ jobs[j].pc = "done"
        /\ jobs[j].serverId = "s1"
        /\ Len(jobs[j].inserts) = 2
        /\ ~ jobs[j].inserts[1].ok
        /\ jobs[j].inserts[2].ok
        /\ \E r \in librarySnapshots :
              r.serverId = "s1" /\ r.libraryId = jobs[j].inserts[2].libraryId
        /\ \A r \in librarySnapshots :
              r.serverId = "s1" => r.libraryId # jobs[j].inserts[1].libraryId

(***************************************************************************)
(* The fetch loop                                                          *)
(***************************************************************************)
\* the last page request of the current library threw
FailedFetch == requests # <<>> /\ ~ requests[Len(requests)].ok

\* Math.round(v * actualTotalCount / n)
Extrapolated(v, n) == (2 * v * totalCount + n) \div (2 * n)

\* C22: a page request that failed is the last request of its library: the
\* loop has ended and the page is not asked for again.  The items of the pages
\* before it are kept, and the record persisted for the library is computed
\* from them: the sums of the items as they are when the library is not sampled,
\* and when it is sampled the sums times totalCount divided by the number of
\* items kept, rounded.
C22_FailedPageEndsFetch ==
    /\ \A i \in 1..Len(requests) : ~ requests[i].ok => i = Len(requests)
    /\ (KnownRun /\ FailedFetch) =>
          /\ pc # "fetch"
          /\ Len(items) = Len(requests) - 1
          /\ \A i \in 1..Len(items) :
                items[i].n = requests[i].length /\ items[i].pos = requests[i].offset
          /\ itemsFetched = ItemsLength(items)
    /\ (Persisted /\ FailedFetch) =>
          \A r \in CurrentRows :
              LET acc == Accumulated
                  kept == ItemsLength(items)
              IN  /\ (Sampled /\ kept > 0) =>
                        /\ r.stats.totalSizeBytes = Extrapolated(acc.totalSizeBytes, kept)
                        /\ r.stats.totalDurationMs = Extrapolated(acc.totalDurationMs, kept)
                        /\ r.stats.hdrItemCount = Extrapolated(acc.hdrItemCount, kept)
                  /\ (~ Sampled \/ kept = 0) =>
                        /\ r.stats.totalSizeBytes = acc.totalSizeBytes
                        /\ r.stats.totalDurationMs = acc.totalDurationMs
                        /\ r.stats.hdrItemCount = acc.hdrItemCount

\* a sampled library was persisted after a short first page and a second request
\* that failed: the record is extrapolated from the items of the first page
C22_Witness ==
    /\ Persisted /\ FailedFetch /\ Sampled
    /\ Len(requests) = 2
    /\ 0 < itemsFetched /\ itemsFetched < SAMPLE_SIZE
    /\ \E r \in CurrentRows : r.stats.totalSizeBytes > Accumulated.totalSizeBytes

\* maxItems of the current library
maxItems ==
    IF totalCount > SAMPLING_THRESHOLD THEN SAMPLE_SIZE
    ELSE IF totalCount < MAX_ITEMS_TO_PROCESS THEN totalCount ELSE MAX_ITEMS_TO_PROCESS

\* the fetch loop of the current library is over
FetchEnded == KnownRun /\ pc \in {"calc", "finish"}

\* C23: the fetch loop ends after finitely many requests, whatever the backend
\* answers.  Every request asks for min(2000, maxItems - itemsFetched) items; a
\* request is followed by another one only if it returned a page that was not
\* empty and left itemsFetched below maxItems, so that itemsFetched grows with
\* every request but the last and there are never more than maxItems requests;
\* after an empty page the loop is over and the library is processed with the
\* items fetched so far.
C23_FetchTerminates ==
    KnownRun =>
        /\ \A i \in 1..Len(requests) :
              /\ FetchedBefore(i) < maxItems
              /\ requests[i].batchSize =
                    (IF maxItems - FetchedBefore(i) < 2000
                     THEN maxItems - FetchedBefore(i) ELSE 2000)
              /\ i < Len(requests) =>
                    /\ requests[i].ok
                    /\ requests[i].length > 0
                    /\ FetchedBefore(i) < FetchedBefore(i + 1)
        /\ Len(requests) <= maxItems
        /\ pc = "fetch" =>
              /\ itemsFetched < maxItems
              /\ requests # <<>> =>
                    requests[Len(requests)].ok /\ requests[Len(requests)].length > 0
        /\ (requests # <<>> /\ requests[Len(requests)].length = 0) => FetchEnded
        /\ (Persisted /\ requests # <<>>
             /\ requests[Len(requests)].ok /\ requests[Len(requests)].length = 0) =>
                /\ itemsFetched = ItemsLength(items)
                /\ Len(items) = Len(requests) - 1

\* a library of more than one page was persisted after a first page and a
\* second page that was empty
C23_Witness ==
    /\ Persisted
    /\ Len(requests) = 2
    /\ requests[1].length = PAGE_SIZE
    /\ requests[2].ok
    /\ requests[2].length = 0
    /\ requests[2].batchSize = totalCount - PAGE_SIZE
    /\ \E r \in CurrentRows : r.stats.totalSizeBytes > 0

\* the backend never returned more items than the request asked for
NeverLonger == \A i \in 1..Len(requests) : requests[i].length <= requests[i].batchSize

\* every request asks for a range of positions of the library
RangesInside ==
    \A i \in 1..Len(requests) :
        /\ 0 <= requests[i].offset
        /\ requests[i].offset + requests[i].batchSize <= totalCount

\* C29 as stated: when the backend never returns more than it was asked for,
\* the ranges [offset, offset + batchSize) of the requests lie inside
\* [0, totalCount), the ranges of two requests of a run do not overlap, and
\* the number of items accumulated is at most maxItems.
C29_RequestedRangesDisjoint ==
    (KnownRun /\ NeverLonger) =>
        /\ RangesInside
        /\ \A i, j \in 1..Len(requests) :
              i < j => requests[i].offset + requests[i].batchSize <= requests[j].offset
        /\ ItemsLength(items) <= maxItems

\* C29: when the backend never returns more than it was asked for, the ranges
\* [offset, offset + batchSize) of the requests lie inside [0, totalCount), the
\* ranges [offset, offset + length) of the pages returned do not overlap, so no
\* position is fetched twice (and the ranges asked for do not overlap either as
\* long as every page is as long as asked), and the number of items accumulated
\* is at most maxItems.
C29_FetchedRangesDisjoint ==
    (KnownRun /\ NeverLonger) =>
        /\ RangesInside
        /\ \A i, j \in 1..Len(requests) :
              i < j =>
                 /\ requests[i].offset + requests[i].length <= requests[j].offset
                 /\ (\A k \in i..(j - 1) : requests[k].length = requests[k].batchSize) =>
                       requests[i].offset + requests[i].batchSize <= requests[j].offset
        /\ \A i, j \in 1..Len(items) :
              i < j => items[i].pos + items[i].n <= items[j].pos
        /\ ItemsLength(items) <= maxItems
        /\ itemsFetched <= maxItems

\* a sampled fetch whose first page was shorter than asked and whose second
\* request, for the rest of the sample, returned items: the range it asked for
\* overlaps the range of the first request, the pages returned do not
C29_Witness ==
    /\ KnownRun /\ NeverLonger /\ Sampled
    /\ Len(requests) = 2
    /\ 0 < requests[1].length /\ requests[1].length < requests[1].batchSize
    /\ requests[2].length > 0
    /\ requests[2].offset < requests[1].offset + requests[1].batchSize
    /\ requests[2].offset >= requests[1].offset + requests[1].length
    /\ Len(items) = 2

\* C30: in every record hdrItemCount is at most totalItems, and the
\* hdrPercentage getLibraryStatistics reports for it, hdrItemCount * 100 /
\* totalItems (0 without items), lies between 0 and 100.
C30_HdrWithinItems ==
    \A r \in libraryStatistics :
        /\ r.stats.hdrItemCount <= r.stats.totalItems
        /\ 0 <= HdrPercentage(r)[1]
        /\ HdrPercentage(r)[1] <= 100 * HdrPercentage(r)[2]

(***************************************************************************)
(* lastUpdatedAt                                                           *)
(***************************************************************************)
\* the call of updateAllLibraryStats that has just ended, if this step ended one
Ended(op, result) ==
    /\ calls' # calls
    /\ calls' # <<>>
    /\ calls'[Len(calls')].op = op
    /\ calls'[Len(calls')].result = result

\* C24, during the update: the record of a library whose processing failed is
\* as it was when it failed, lastUpdatedAt included.
C24_FailedKeepsRecord ==
    \A i \in 1..Len(skipped) :
        \A r \in libraryStatistics :
            (r.serverId = server /\ r.libraryId = skipped[i].id) => r \in skipped[i].rows

\* C24, the end of the update: the step in which the update returns writes one
\* lastUpdatedAt, later than every lastUpdatedAt in the table, to the records of
\* the libraries processed in this update and changes nothing else: the other
\* records, those of libraries that failed or were not in the list, keep theirs.
C24_BatchedUpdate ==
    (pc = "finish" /\ Ended("update", "completed")) =>
        /\ Cardinality(libraryStatistics') = Cardinality(libraryStatistics)
        /\ \A id \in Range(processedLibraryIds) :
              \E q \in libraryStatistics' : q.serverId = server /\ q.libraryId = id
        /\ \A q \in libraryStatistics' :
              IF q.serverId = server /\ q.libraryId \in Range(processedLibraryIds)
              THEN /\ q.lastUpdatedAt = now'
                   /\ \A r \in libraryStatistics : r.lastUpdatedAt < q.lastUpdatedAt
                   /\ \E r \in libraryStatistics :
                         q = [r EXCEPT !.lastUpdatedAt = q.lastUpdatedAt]
              ELSE q \in libraryStatistics

\* C24: both parts
C24_OnlyProcessedAreFresh == [] C24_FailedKeepsRecord /\ [][C24_BatchedUpdate]_vars

\* the update of s1 has just returned: library 1, which has a record of an
\* earlier update, failed and keeps its lastUpdatedAt; library 3 was processed
\* and its record has the lastUpdatedAt the batched update wrote
C24_Witness ==
    /\ pc = "snapshot"
    /\ calls # <<>>
    /\ LET e == calls[Len(calls)]
       IN  /\ e.op = "update" /\ e.server = "s1" /\ e.result = "completed"
           /\ e.processed = << "3" >>
           /\ Len(e.skipped) = 1
           /\ e.skipped[1].id = "1"
           /\ e.skipped[1].rows # {}
           /\ \A r \in e.skipped[1].rows : r \in libraryStatistics /\ r.lastUpdatedAt < now
    /\ \E r \in libraryStatistics :
          r.serverId = "s1" /\ r.libraryId = "3" /\ r.lastUpdatedAt = now

\* C25: an upsert that overwrites the statistics of an existing record also
\* advances the lastUpdatedAt of that record, in the same step.
C25_UpsertAdvances ==
    [][\A r \in libraryStatistics :
          \A q \in libraryStatistics' :
              (SameLibrary(r, q) /\ q.stats # r.stats) => q.lastUpdatedAt > r.lastUpdatedAt]_vars

(***************************************************************************)
(* createDailySnapshot                                                     *)
(***************************************************************************)
\* the snapshot a record should get on the day `date`: its items, size and
\* duration, with its keys and type
CopyOf(r, date) ==
    [serverId |-> r.serverId, libraryId |-> r.libraryId, libraryType |-> r.libraryType,
     snapshotDate |-> date, totalItems |-> r.stats.totalItems,
     totalSizeBytes |-> r.stats.totalSizeBytes, totalDurationMs |-> r.stats.totalDurationMs]

\* the records of a server that have no snapshot on the day `date`
WithoutSnapshot(s, date) ==
    { r \in libraryStatistics :
        /\ r.serverId = s
        /\ \A q \in librarySnapshots :
              ~ (q.serverId = s /\ q.libraryId = r.libraryId /\ q.snapshotDate = date) }

\* C28: a createDailySnapshot that returns without an insert error adds, for
\* every record of the server that has no snapshot for today, one snapshot with
\* the items, size and duration the record holds at that moment, whatever
\* happened to the library in the update before; it adds nothing else, changes
\* no snapshot that exists and no record.  When inserts failed what it adds is
\* a part of those snapshots.
C28_SnapshotCopiesRecords ==
    [][LET s == calls'[Len(calls')].server
           added == librarySnapshots' \ librarySnapshots
           due == { CopyOf(r, Midnight(today, 0)) : r \in WithoutSnapshot(s, Midnight(today, 0)) }
       IN  /\ Ended("snapshot", "completed") =>
                /\ added = due
                /\ librarySnapshots \subseteq librarySnapshots'
                /\ libraryStatistics' = libraryStatistics
           /\ Ended("snapshot", "logged errors") =>
                /\ added \subseteq due
                /\ librarySnapshots \subseteq librarySnapshots'
                /\ libraryStatistics' = libraryStatistics]_vars

\* createDailySnapshot of s1 has returned after an update in which library 3
\* was not in the list any more and library 1, which has a record with items,
\* failed: the record has its snapshot for today
C28_Witness ==
    /\ Len(calls) >= 2
    /\ LET e == calls[Len(calls) - 1]
           f == calls[Len(calls)]
       IN  /\ e.op = "update" /\ e.server = "s1" /\ e.result = "completed"
           /\ Len(e.libraries) = 2
           /\ Len(e.skipped) = 1 /\ e.skipped[1].id = "1"
           /\ f.op = "snapshot" /\ f.server = "s1" /\ f.result = "completed"
           /\ \E r \in libraryStatistics :
                     /\ r.serverId = "s1" /\ r.libraryId = "1"
                     /\ r.stats.totalItems > 0
                     /\ CopyOf(r, Midnight(today, 0)) \in librarySnapshots

(***************************************************************************)
(* GET /libraries: what a user with restricted access is shown             *)
(***************************************************************************)
\* the servers the user of the request may see
Accessible == { response[1].user.serverIds[i] : i \in 1..Len(response[1].user.serverIds) }

\* the request of a user with restricted access has been answered with data
RestrictedServed ==
    /\ response # <<>>
    /\ response[1].status = 200
    /\ response[1].user.role \notin {"owner", "admin"}
    /\ response[1].user.serverIds # <<>>

\* the records and the snapshots of the history that the request may show
VisibleRecords ==
    { r \in libraryStatistics :
        r.serverId \in Accessible /\ WhereServer(response[1].serverId, r) }
VisibleSnapshots ==
    { r \in librarySnapshots :
        /\ r.serverId \in Accessible /\ WhereServer(response[1].serverId, r)
        /\ InHistory(HistoryStartDate(Midnight(today, response[1].timezone)
                                          + response[1].timeOfDay,
                                      response[1].daysOfHistory), r) }

RECURSIVE SumOfRecords(_, _)
SumOfRecords(rows, field) ==
    IF rows = {} THEN 0
    ELSE LET r == CHOOSE x \in rows : TRUE
         IN  r.stats[field] + SumOfRecords(rows \ {r}, field)

\* the libraries and the totals of the response are those of the servers the
\* user may see
C26_CurrentOfAccessible ==
    RestrictedServed =>
        /\ \A i \in 1..Len(Current.libraries) : Current.libraries[i].serverId \in Accessible
        /\ Len(Current.libraries) = Cardinality(VisibleRecords)
        /\ Current.totalSize = SumOfRecords(VisibleRecords, "totalSizeBytes")
        /\ Current.totalItems = SumOfRecords(VisibleRecords, "totalItems")
        /\ Current.totalHours
             = Divide(SumOfRecords(VisibleRecords, "totalDurationMs"), MsPerHour)

\* current.lastUpdated is the newest lastUpdatedAt of those records
C26_LastUpdatedOfAccessible ==
    RestrictedServed =>
        Current.lastUpdated =
            IF VisibleRecords = {} THEN NullString
            ELSE toISOString((CHOOSE r \in VisibleRecords :
                                 \A q \in VisibleRecords : q.lastUpdatedAt <= r.lastUpdatedAt)
                             .lastUpdatedAt)

\* the dates of the history are the dates of the snapshots of those servers,
\* each with as many libraries as they have snapshots on it
C26_HistoricalOfAccessible ==
    RestrictedServed =>
        /\ { Historical[i].date : i \in 1..Len(Historical) }
             = { DateString(r.snapshotDate) : r \in VisibleSnapshots }
        /\ \A i \in 1..Len(Historical) :
              Len(Historical[i].libraries)
                = Cardinality({ r \in VisibleSnapshots :
                                  DateString(r.snapshotDate) = Historical[i].date })

\* C26: what GET /libraries answers to a user who is neither owner nor admin
\* and has a non-empty serverIds is made of the records and snapshots of the
\* servers in serverIds alone: the libraries, the totals, lastUpdated and the
\* historical lists are those of a database without the other servers.
C26_NoDataOfOtherServers ==
    /\ C26_CurrentOfAccessible
    /\ C26_LastUpdatedOfAccessible
    /\ C26_HistoricalOfAccessible

(***************************************************************************)
(* Manual updates in the queue                                             *)
(***************************************************************************)
\* no id has two jobs in the queue, so none has two that wait or run
C27_OneJobPerTarget ==
    \A id \in { job.id : job \in libraryStatsQueue.jobs } :
        Cardinality(JobsWithId(id)) <= 1

\* a call that reads the state 'waiting' or 'active' adds no job and returns
\* the id of the job
C27_ReturnsExisting ==
    \A c \in Callers :
        (enqueues[c].pc = "getState" /\ enqueues'[c].state \in {"active", "waiting"}) =>
            /\ enqueues'[c].pc = "done"
            /\ enqueues'[c].result = ExistingJobId(enqueues[c].serverId)
            /\ libraryStatsQueue' = libraryStatsQueue

\* a call removes only a job that is completed or failed, and the add that
\* follows leaves one job of the id in the queue
C27_ReplacesFinished ==
    \A c \in Callers :
        /\ (enqueues[c].pc = "remove" /\ enqueues'[c].pc # "remove") =>
              \A job \in libraryStatsQueue.jobs \ libraryStatsQueue'.jobs :
                  job.state \in {"completed", "failed"}
        /\ (enqueues[c].pc = "add" /\ enqueues'[c].pc = "done") =>
              /\ Cardinality({ job \in libraryStatsQueue'.jobs :
                                  job.id = ExistingJobId(enqueues[c].serverId) }) = 1
              /\ libraryStatsQueue'.added <= libraryStatsQueue.added + 1

\* C27: a target of manual updates never has two jobs waiting or active;
\* enqueueLibraryStatsUpdate called while its job waits or runs adds none and
\* returns its id; a job that is completed or failed is removed and one fresh
\* job takes its place, and no other job is removed, also when two calls for
\* the target interleave.
C27_OneManualUpdate ==
    /\ [] C27_OneJobPerTarget
    /\ [][C27_ReturnsExisting /\ C27_ReplacesFinished]_vars

==========================================================================
